---- MODULE Spec2Model ----
\* A model of nima_io/read.py: the metadata dictionary builder (get_md_dict),
\* the index enumerator (next_tuple), the value grouper (get_allvalues_grouped),
\* the value conversion (convert_value) and diff.
EXTENDS Integers, Sequences, FiniteSets, TLC

\* ---------------------------------------------------------------- bounds

\* Largest index at which the modelled backend accessors still answer.
MaxIdx == 1
\* Number of get_md_dict calls made on the same backend object and file path.
MaxRuns == 2
\* Largest element of the index tuples handed directly to next_tuple.
MaxElem == 2
\* Largest number of series of the files handed to diff.
MaxSeries == 2
\* The calls of ImageReaderWrapper.read followed on one wrapper.
MaxReads == 2

\* ------------------------------------------------------ program constants

\* range(5) in get_md_dict: arities 0..4 are probed.
NPAR_RANGE == 5
\* m[:3] == "get" and k[3:]: the length of the accessor prefix.
PREFIX_LEN == 3

\* ------------------------------------------------------------ Python data

\* A Python string is the sequence of its characters.
S_get == <<"g", "e", "t">>

\* Python's None, for optional sequences (an index, a list).
None == <<>>

\* The outcome of a call: a returned value or a raised exception.
Ok(v) == [exc |-> "none", val |-> v]
Raise(e) == [exc |-> e, val |-> <<>>]

\* llist[i] for a negative Python index i.
PyAt(llist, i) == llist[Len(llist) + i + 1]

\* llist with llist[i] = x, for a negative Python index i.
PySet(llist, i, x) == [llist EXCEPT ![Len(llist) + i + 1] = x]

\* ------------------------------------------------- first_nonzero_reverse

\* A faulty variant of fnr_from: range(-1, -len(llist), -1), which leaves
\* llist[0] out.
RECURSIVE fnr_from_short(_, _)
fnr_from_short(llist, i) ==
    IF i <= -Len(llist) THEN None
    ELSE IF PyAt(llist, i) # 0 THEN <<i>>
    ELSE fnr_from_short(llist, i - 1)

\* range(-1, -len(llist) - 1, -1): the first i with llist[i] != 0, as <<i>>,
\* or None.
RECURSIVE fnr_from(_, _)
fnr_from(llist, i) ==
    IF i < -Len(llist) THEN None
    ELSE IF PyAt(llist, i) # 0 THEN <<i>>
    ELSE fnr_from(llist, i - 1)

first_nonzero_reverse(llist) == fnr_from(llist, -1)

\* ------------------------------------------------------------- next_tuple

\* A faulty variant of next_tuple_carry: the carry that forgets line 1353,
\* llist[idx] = 0.
next_tuple_carry_keep(llist, idx) ==
    IF idx = <<-Len(llist)>> THEN Raise("StopExceptionError")
    ELSE IF idx # None
    THEN Ok(PySet(llist, idx[1] - 1, PyAt(llist, idx[1] - 1) + 1))
    ELSE Ok(llist)

\* Lines 1349-1355: the branch of s false, idx being what
\* first_nonzero_reverse returned.
next_tuple_carry(llist, idx) ==
    IF idx = <<-Len(llist)>> THEN Raise("StopExceptionError")
    ELSE IF idx # None
    THEN Ok(PySet(PySet(llist, idx[1], 0), idx[1] - 1, PyAt(llist, idx[1] - 1) + 1))
    ELSE Ok(llist)

\* A faulty variant of next_tuple: lines 1344-1345 left out, so that
\* llist[-1] += 1 raises IndexError for the empty list.
next_tuple_unguarded(llist, s) ==
    IF s /\ Len(llist) = 0 THEN Raise("IndexError")
    ELSE IF s THEN Ok(PySet(llist, -1, PyAt(llist, -1) + 1))
    ELSE next_tuple_carry(llist, first_nonzero_reverse(llist))

\* Lines 1343-1355.
next_tuple(llist, s) ==
    IF Len(llist) = 0 THEN Raise("StopExceptionError")
    ELSE IF s THEN Ok(PySet(llist, -1, PyAt(llist, -1) + 1))
    ELSE next_tuple_carry(llist, first_nonzero_reverse(llist))

\* ---------------------------------------------------------- Python values

\* A converted value (MDValueType, None, a (number, unit) pair or a retained
\* Java object): its Python type, its text (str() of it, canonical for
\* numbers) and, for a pair, the unit symbol.
PV(tag, text) == [pair |-> FALSE, tag |-> tag, text |-> text, sym |-> <<>>]
PVPair(first, sym) == [pair |-> TRUE, tag |-> first.tag, text |-> first.text, sym |-> sym]
PyNone == PV("NoneType", <<>>)

Digits == {"0", "1", "2", "3", "4", "5", "6", "7", "8", "9"}
AllDigits(t) == Len(t) > 0 /\ \A i \in 1..Len(t) : t[i] \in Digits
Unsigned(t) == IF Len(t) > 0 /\ t[1] \in {"-", "+"} THEN Tail(t) ELSE t
IsNeg(t) == Len(t) > 0 /\ t[1] = "-"

RECURSIVE StripLeadingZeros(_)
StripLeadingZeros(t) ==
    IF Len(t) > 1 /\ t[1] = "0" THEN StripLeadingZeros(Tail(t)) ELSE t

RECURSIVE StripTrailingZeros(_)
StripTrailingZeros(t) ==
    IF Len(t) > 1 /\ t[Len(t)] = "0"
    THEN StripTrailingZeros(SubSeq(t, 1, Len(t) - 1)) ELSE t

Signed(neg, body) == IF neg THEN <<"-">> \o body ELSE body

\* int(snum) succeeds: an optional sign and decimal digits.
IsIntLiteral(t) == AllDigits(Unsigned(t))

\* str(int(snum)), d being the digits without leading zeros.
IntTextOf(neg, d) == Signed(neg /\ d # <<"0">>, d)
IntText(t) == IntTextOf(IsNeg(t), StripLeadingZeros(Unsigned(t)))

DotAt(u) == {i \in 1..Len(u) : u[i] = "."}
DotPos(u) == IF DotAt(u) = {} THEN Len(u) + 1 ELSE CHOOSE i \in DotAt(u) : TRUE

\* float(snum) succeeds: an optional sign, digits around at most one point.
IsFloatShape(u) ==
    \/ AllDigits(u)
    \/ /\ Cardinality(DotAt(u)) = 1
       /\ Len(u) > 1
       /\ \A i \in 1..Len(u) : u[i] \in Digits \cup {"."}
IsFloatLiteral(t) == IsFloatShape(Unsigned(t))

\* str(float(snum)): the digits before the point at d, the point, the digits
\* after it.
IntPart(u, d) == IF d = 1 THEN <<"0">> ELSE StripLeadingZeros(SubSeq(u, 1, d - 1))
FracPart(u, d) ==
    IF d >= Len(u) THEN <<"0">> ELSE StripTrailingZeros(SubSeq(u, d + 1, Len(u)))
FloatTextAt(neg, u, d) == Signed(neg, IntPart(u, d) \o <<".">> \o FracPart(u, d))
FloatText(t) == FloatTextAt(IsNeg(t), Unsigned(t), DotPos(Unsigned(t)))

\* a == b in Python, for two converted values: numbers compare by value across
\* int, float and bool; everything else compares structurally.
NumText(v) ==
    IF v.tag = "bool"
    THEN (IF v.text = <<"T", "r", "u", "e">> THEN <<"1">> ELSE <<"0">>)
    ELSE v.text
PlusZero(f) == IF f = <<"-", "0", ".", "0">> THEN <<"0", ".", "0">> ELSE f
NumKey(v) == PlusZero(FloatText(NumText(v)))

IsNum(v) == v.tag \in {"int", "float", "bool"}

PyEq(a, b) ==
    /\ a.pair = b.pair
    /\ a.sym = b.sym
    /\ IF IsNum(a) /\ IsNum(b) THEN NumKey(a) = NumKey(b)
       ELSE a.tag = b.tag /\ a.text = b.text

\* ------------------------------------------------------ backend raw values

\* What a call of a backend accessor gives: an exception (exc), or a value of
\* one of the shapes convert_value tells apart:
\*   "plain"    a Python str, bool or int (tag, text);
\*   "getValue" an object with getValue(), whose payload is (tag, text);
\*   "unit"     an object with unit(), value() being the payload and
\*              unit().getSymbol() being sym;
\*   "object"   anything else, None included (tag "NoneType").
\* err_get is what getValue()/value() raises, err_str what str() of the
\* payload raises ("none" when they return).
Cell(exc, shape, tag, text, sym, err_get, err_str) ==
    [exc |-> exc, shape |-> shape, tag |-> tag, text |-> text, sym |-> sym,
     err_get |-> err_get, err_str |-> err_str]

Raised(exc) == Cell(exc, "object", "NoneType", <<>>, <<>>, "none", "none")
Plain(tag, text) == Cell("none", "plain", tag, text, <<>>, "none", "none")
Wrapped(tag, text) == Cell("none", "getValue", tag, text, <<>>, "none", "none")
WrappedFaulty(exc) == Cell("none", "getValue", "java", <<>>, <<>>, exc, "none")
Quantity(text, sym) == Cell("none", "unit", "java", text, sym, "none", "none")
Object(text) == Cell("none", "object", "java", text, <<>>, "none", "none")
ObjectFaulty(exc) == Cell("none", "object", "java", <<>>, <<>>, "none", exc)
NoneCell == Cell("none", "object", "NoneType", <<>>, <<>>, "none", "none")

\* The result of a conversion: an exception or a value, the md2[2] tag and
\* whether a warning was issued.
CV(exc, val, how, warned) == [exc |-> exc, val |-> val, how |-> how, warned |-> warned]

\* --------------------------------------------- convert_java_numeric_field

\* A faulty variant of convert_java_numeric_field: float(snum) is tried
\* before int(snum).
convert_java_numeric_field_float_first(java_field) ==
    IF java_field.tag = "NoneType" THEN CV("none", PyNone, "", FALSE)
    ELSE IF java_field.err_str # "none" THEN CV(java_field.err_str, PyNone, "", FALSE)
    ELSE IF IsFloatLiteral(java_field.text)
    THEN CV("none", PV("float", FloatText(java_field.text)), "", FALSE)
    ELSE IF IsIntLiteral(java_field.text)
    THEN CV("none", PV("int", IntText(java_field.text)), "", FALSE)
    ELSE CV("none", PV("str", java_field.text), "", FALSE)

\* The argument is the payload (tag, text, err_str) of a cell: None gives
\* None, str() may raise, then int(snum), float(snum) and snum are tried.
convert_java_numeric_field(java_field) ==
    IF java_field.tag = "NoneType" THEN CV("none", PyNone, "", FALSE)
    ELSE IF java_field.err_str # "none" THEN CV(java_field.err_str, PyNone, "", FALSE)
    ELSE IF IsIntLiteral(java_field.text)
    THEN CV("none", PV("int", IntText(java_field.text)), "", FALSE)
    ELSE IF IsFloatLiteral(java_field.text)
    THEN CV("none", PV("float", FloatText(java_field.text)), "", FALSE)
    ELSE CV("none", PV("str", java_field.text), "", FALSE)

\* ------------------------------------------------------------ convert_value

\* Lines 1264-1265: the converted payload of getValue(); an exception of the
\* conversion leaves convert_value.
cv_getValue(vv) == CV(vv.exc, vv.val, "gVc", FALSE)

\* Lines 1268-1269: the (number, unit symbol) pair.
cv_unit(vv, sym) ==
    IF vv.exc # "none" THEN CV(vv.exc, PyNone, "", FALSE)
    ELSE CV("none", PVPair(vv.val, sym), "unit", FALSE)

\* Lines 1271-1286: ValueError is warned about and v kept; any other
\* exception is warned about and raised again.
cv_fallback(v, vv) ==
    IF vv.exc = "none" THEN CV("none", vv.val, "c", FALSE)
    ELSE IF vv.exc = "ValueError" THEN CV("none", PV(v.tag, v.text), "un", TRUE)
    ELSE CV(vv.exc, PyNone, "un", TRUE)

\* The branches of convert_value that call convert_java_numeric_field, vv
\* being its result.
cv_numeric(v, vv) ==
    IF v.shape = "getValue" THEN cv_getValue(vv)
    ELSE IF v.shape = "unit" THEN cv_unit(vv, v.sym)
    ELSE cv_fallback(v, vv)

\* debug = False: the value md2[0] is returned.
convert_value(v) ==
    IF v.shape = "plain" /\ v.tag \in {"str", "bool", "int"}
    THEN CV("none", PV(v.tag, v.text), "v", FALSE)
    ELSE IF v.shape \in {"getValue", "unit"} /\ v.err_get # "none"
    THEN CV(v.err_get, PyNone, "", FALSE)
    ELSE IF v.shape = "getValue" /\ v.tag \in {"str", "bool", "int", "float"}
    THEN CV("none", PV(v.tag, v.text), "gV", FALSE)
    ELSE cv_numeric(v, convert_java_numeric_field(v))

\* ---------------------------------------------------- get_allvalues_grouped

\* getattr(metadata, key)(*t): the table of the accessor answers inside its
\* domain; every other index tuple raises.
CallAccessor(acc, t) ==
    IF t \in DOMAIN acc THEN acc[t] ELSE Raised("JavaException")

Zeros(npar) == [i \in 1..npar |-> 0]

\* The state of the enumeration loop: the index list, the flag s, the pairs
\* collected, the number of accessor calls made, the exception that left the
\* function ("none" while it runs) and whether the loop has ended.
WalkState(tuple_list, s, res, calls, exc, done) ==
    [tuple_list |-> tuple_list, s |-> s, res |-> res, calls |-> calls,
     exc |-> exc, done |-> done]

\* Lines 1380-1385: the first call, at the all-zero index, outside any try;
\* c is what the accessor gave and v what convert_value made of it.
WalkFirstValue(t, v) ==
    IF v.exc # "none" THEN WalkState(t, TRUE, <<>>, 1, v.exc, TRUE)
    ELSE WalkState(t, TRUE, << <<t, v.val>> >>, 1, "none", FALSE)

WalkFirstCall(t, c) ==
    IF c.exc # "none" THEN WalkState(t, TRUE, <<>>, 1, c.exc, TRUE)
    ELSE WalkFirstValue(t, convert_value(c))

WalkFirst(acc, npar) == WalkFirstCall(Zeros(npar), CallAccessor(acc, Zeros(npar)))

\* A faulty variant of WalkFail: the index that failed is forgotten.
WalkFailStay(w, t) == [w EXCEPT !.s = FALSE, !.calls = @ + 1]

\* Lines 1395-1396: except Exception, the index stays advanced.
WalkFail(w, t) == [w EXCEPT !.tuple_list = t, !.s = FALSE, !.calls = @ + 1]

\* Lines 1390-1392.
WalkValue(w, t, v) ==
    IF v.exc # "none" THEN WalkFail(w, t)
    ELSE [w EXCEPT !.tuple_list = t, !.s = TRUE, !.calls = @ + 1,
                   !.res = Append(@, <<t, v.val>>)]

WalkCall(w, t, c) ==
    IF c.exc # "none" THEN WalkFail(w, t) ELSE WalkValue(w, t, convert_value(c))

\* Lines 1388-1394, nt being what next_tuple gave.
WalkNext(acc, w, nt) ==
    IF nt.exc = "StopExceptionError" THEN [w EXCEPT !.done = TRUE]
    ELSE WalkCall(w, nt.val, CallAccessor(acc, nt.val))

\* Lines 1386-1396: one iteration of the while loop.
WalkStep(acc, w) == WalkNext(acc, w, next_tuple(w.tuple_list, w.s))

RECURSIVE WalkRun(_, _)
WalkRun(acc, w) == IF w.done THEN w ELSE WalkRun(acc, WalkStep(acc, w))

\* The enumeration of lines 1380-1396.
Walk(acc, npar) == WalkRun(acc, WalkFirst(acc, npar))

\* values.count(values[0]) == len(values), for a non-empty list.
AllSame(values) == \A i \in 1..Len(values) : PyEq(values[i], values[1])

\* v == w for two lists of values.
ListEq(v, w) == Len(v) = Len(w) /\ \A i \in 1..Len(v) : PyEq(v[i], w[i])

\* [e[1] for e in res]
ValuesOf(res) == [i \in 1..Len(res) |-> res[i][2]]

\* The keys of grouped_res in insertion order: the first index components in
\* order of first appearance.
AppendNew(seq, k) == IF \E i \in 1..Len(seq) : seq[i] = k THEN seq ELSE Append(seq, k)

RECURSIVE GroupKeys(_)
GroupKeys(res) ==
    IF res = <<>> THEN <<>>
    ELSE AppendNew(GroupKeys(SubSeq(res, 1, Len(res) - 1)), res[Len(res)][1][1])

\* grouped_res[k]
IsInGroup(e, k) == e[1][1] = k
GroupValues(res, k) == ValuesOf(SelectSeq(res, LAMBDA e : IsInGroup(e, k)))

MaxOf(S) == CHOOSE x \in S : \A y \in S : y <= x

\* Lines 1412-1413: the pair that stands for the group of k with values v.
GroupPair(k, v) == << <<k, Len(v) - 1>>, v[Len(v)] >>
AppendGroup(new_res, k, v) == IF AllSame(v) THEN Append(new_res, GroupPair(k, v)) ELSE new_res

\* new_res of lines 1410-1413.
RECURSIVE NewRes(_, _)
NewRes(res, keys) ==
    IF keys = <<>> THEN <<>>
    ELSE AppendGroup(NewRes(res, SubSeq(keys, 1, Len(keys) - 1)),
                     keys[Len(keys)], GroupValues(res, keys[Len(keys)]))

\* A faulty variant of LastN: res[:n].
FirstN(res, n) ==
    IF n = 0 \/ n >= Len(res) THEN res ELSE SubSeq(res, 1, n)

\* res[-n:]
LastN(res, n) ==
    IF n = 0 \/ n >= Len(res) THEN res ELSE SubSeq(res, Len(res) - n + 1, Len(res))

\* Lines 1414-1415.
ResOr(res, new_res) == IF new_res # <<>> THEN new_res ELSE res

\* Lines 1417-1422: the for-else; v is the last group of the iteration.
SameGroupRepeated(res, keys, max_key) ==
    \A i \in 1..Len(keys) : ListEq(GroupValues(res, keys[i]), GroupValues(res, max_key))

\* A faulty variant of CollapseRepeated: the break of line 1419 left out, so
\* that the else clause of the for loop always runs.
CollapseRepeatedAlways(res, res1, keys) ==
    LastN(res1, Len(GroupValues(res, keys[Len(keys)])))

CollapseRepeated(res, res1, keys) ==
    IF SameGroupRepeated(res, keys, MaxOf({keys[i] : i \in 1..Len(keys)}))
    THEN LastN(res1, Len(GroupValues(res, keys[Len(keys)])))
    ELSE res1

\* Lines 1403-1422.
CollapseGroups(res, keys) == CollapseRepeated(res, ResOr(res, NewRes(res, keys)), keys)

\* A faulty variant of Collapse: line 1402 keeping res[0] instead of res[-1].
CollapseKeepFirst(res) ==
    IF Len(res) <= 1 THEN res
    ELSE IF AllSame(ValuesOf(res)) THEN << res[1] >>
    ELSE IF Len(res[1][1]) >= 2 THEN CollapseGroups(res, GroupKeys(res))
    ELSE res

\* Lines 1399-1423: tidy up common metadata.
Collapse(res) ==
    IF Len(res) <= 1 THEN res
    ELSE IF AllSame(ValuesOf(res)) THEN << res[Len(res)] >>
    ELSE IF Len(res[1][1]) >= 2 THEN CollapseGroups(res, GroupKeys(res))
    ELSE res

\* The result of get_allvalues_grouped: the exception that leaves it, or the
\* list of (index, value) pairs; calls counts the accessor calls.
Grouped(w) ==
    [exc |-> w.exc, val |-> IF w.exc = "none" THEN Collapse(w.res) ELSE <<>>,
     calls |-> w.calls]

get_allvalues_grouped(acc, npar) == Grouped(Walk(acc, npar))

\* ------------------------------------------------------------ the backend

\* The names xml_md.__dir__() lists, in its order.
N_getRoot == S_get \o <<"R", "o", "o", "t">>
N_getClass == S_get \o <<"C", "l", "a", "s", "s">>
N_getXMLAnnotationValue == S_get \o <<"X", "M", "L", "A", "n", "n", "o", "t", "a", "t", "i", "o", "n", "V", "a", "l", "u", "e">>
N_getPixelsBinDataBigEndian == S_get \o <<"P", "i", "x", "e", "l", "s", "B", "i", "n", "D", "a", "t", "a", "B", "i", "g", "E", "n", "d", "i", "a", "n">>
N_getImageCount == S_get \o <<"I", "m", "a", "g", "e", "C", "o", "u", "n", "t">>
N_getPixelsSizeX == S_get \o <<"P", "i", "x", "e", "l", "s", "S", "i", "z", "e", "X">>
N_setRoot == <<"s", "e", "t", "R", "o", "o", "t">>
N_id == <<"i", "d">>

Dir == <<N_getRoot, N_id, N_getImageCount, N_setRoot, N_getClass,
         N_getPixelsSizeX, N_getXMLAnnotationValue, N_getPixelsBinDataBigEndian>>

\* Lines 1175-1180: the names never called.
Denylist == {N_getRoot, N_getClass, N_getXMLAnnotationValue, N_getPixelsBinDataBigEndian}

\* m[:n]
PyHead(m, n) == SubSeq(m, 1, IF Len(m) < n THEN Len(m) ELSE n)
\* k[n:]
PyFrom(k, n) == IF Len(k) <= n THEN <<>> ELSE SubSeq(k, n + 1, Len(k))

\* Lines 1169-1181: the candidate accessor names.
IsCandidate(m) == PyHead(m, PREFIX_LEN) = S_get /\ m \notin Denylist
Keys == SelectSeq(Dir, IsCandidate)
KeySet == {Keys[i] : i \in 1..Len(Keys)}

\* k[3:]
Stripped(k) == PyFrom(k, PREFIX_LEN)

\* except (TypeError, RuntimeError), line 1193.
WrongSignature == {"TypeError", "RuntimeError"}

\* The index tuples of one arity at which a modelled accessor may answer.
Box(a) == [1..a -> 0..MaxIdx]

\* An accessor of the backend: the numbers of arguments it accepts, the
\* exception the bridge raises for any other number, and its answers.
Accessor(arities, wrong, tab) == [arities |-> arities, wrong |-> wrong, tab |-> tab]

\* getattr(xml_md, k)(*t)
CallKey(acc, t) ==
    IF Len(t) \notin acc.arities THEN Raised(acc.wrong)
    ELSE CallAccessor(acc.tab, t)

\* The answers of the modelled accessors, by pattern.
PatternCell(pattern, t) ==
    LET zero == \A i \in 1..Len(t) : t[i] = 0
        last0 == Len(t) = 0 \/ t[Len(t)] = 0
    IN CASE pattern = "fault" -> Raised("JavaException")
         [] pattern = "none" -> NoneCell
         [] pattern = "const" -> Plain("int", <<"1">>)
         [] pattern = "vary" -> IF last0 THEN Wrapped("java", <<"7">>)
                                ELSE Quantity(<<"0", ".", "5">>, <<"n", "m">>)
         [] pattern = "poison" -> WrappedFaulty("JavaException")
         [] pattern = "lateFault" -> IF zero THEN Object(<<"0", ".", "9", "7", "6">>)
                                     ELSE ObjectFaulty("JavaException")

Patterns == {"fault", "none", "const", "vary", "poison", "lateFault"}

PatternTab(a, pattern) == [t \in Box(a) |-> PatternCell(pattern, t)]

\* f and g merged, for functions of disjoint domains.
Merge(f, g) == [t \in DOMAIN f \cup DOMAIN g |-> IF t \in DOMAIN f THEN f[t] ELSE g[t]]

Arities == 0..(NPAR_RANGE - 1)

\* The accessors a modelled backend is made of: accessors of no usable
\* arity, of one arity, and overloaded ones of two arities.
Accessors(wrong) ==
    {Accessor({}, wrong, <<>>)}
    \cup {Accessor({a}, wrong, PatternTab(a, p)) : a \in Arities, p \in Patterns}
    \cup {Accessor({ab[1], ab[2]}, wrong,
                   Merge(PatternTab(ab[1], p), PatternTab(ab[2], "const"))) :
            ab \in {x \in Arities \X Arities : x[2] = x[1] + 1},
            p \in {"fault", "none", "vary"}}

\* ------------------------------------------------------------- the prober

\* A faulty variant of Range: range(1, n + 1).
RangeFromOne(n) == [i \in 1..n |-> i]

\* range(n)
Range(n) == [i \in 1..n |-> i - 1]

\* Lines 1188-1194: the arities of order are tried from its i-th on, until a
\* call does not raise TypeError or RuntimeError. tried lists the arities
\* called so far.
\* The probe ends at npar with the answer c: a value (line 1192) or an
\* exception other than TypeError and RuntimeError.
ProbeEnd(npar, c, tried) ==
    [outcome |-> IF c.exc # "none" THEN "fault" ELSE "found",
     npar |-> npar, cell |-> c, tried |-> tried]

RECURSIVE ProbeFrom(_, _, _, _)
ProbeFrom(acc, order, i, tried) ==
    IF i > Len(order)
    THEN [outcome |-> "exhausted", npar |-> -1, cell |-> NoneCell, tried |-> tried]
    ELSE IF CallKey(acc, Zeros(order[i])).exc \in WrongSignature
    THEN ProbeFrom(acc, order, i + 1, Append(tried, order[i]))
    ELSE ProbeEnd(order[i], CallKey(acc, Zeros(order[i])), Append(tried, order[i]))

Probe(acc) == ProbeFrom(acc, Range(NPAR_RANGE), 1, <<>>)

\* ------------------------------------------------------------ get_md_dict

VARIABLES
    xml_md,        \* the backend object: candidate key -> accessor
    filepath,      \* the filepath argument: None or a path
    disk,          \* the files on disk: path -> lines
    open_handles,  \* the file objects opened on the log and not closed
    pc,            \* "idle", "loop" (in the for loop), "returned", "raised"
    run,           \* the number of get_md_dict calls started
    ki,            \* position in keys of the key the for loop handles next
    md,            \* the metadata dict
    mdd,           \* the status dict
    exc,           \* the exception that left get_md_dict ("none" if none)
    probes,        \* history: key -> arities probed in this call, in order
    written,       \* history: the lines each call has written to the log
    \* diff
    fp_a, fp_b,    \* the two files
    d_pc,          \* "start", "done"
    d_ret,         \* what diff returned or raised
    \* next_tuple
    nt_llist,      \* the argument llist
    nt_s,          \* the argument s
    nt_pc,         \* "start", "done"
    nt_ret,        \* what next_tuple returned or raised
    fz_pc,         \* "start", "done": first_nonzero_reverse(nt_llist)
    fz_ret,        \* what first_nonzero_reverse returned
    \* get_allvalues_grouped
    g_acc,         \* the answers of the accessor metadata.key
    g_npar,        \* the argument npar
    g_pc,          \* "start", "loop" (in the while loop), "tidy", "done"
    g_w,           \* the locals tuple_list, s and res, and the calls made
    g_ret,         \* what get_allvalues_grouped returned or raised
    \* stitch and stitch3
    st_fn,         \* the function called: "stitch" or "stitch3"
    st_file,       \* the file read: per series, what its planes say of the stage
    st_planes,     \* the plane wrapper.read gives for each series
    st_pc,         \* "start", "tilemap", "fill", "done"
    st_tilemap,    \* the local tilemap
    st_reads,      \* history: the series read through the wrapper, in order
    st_ret,        \* what the function returned or raised
    \* read and read3
    rd_fn,         \* the function called: "read" or "read3"
    rd_path,       \* the argument filepath
    rd_fs,         \* the file system: what each existing path is
    rd_jvm,        \* scyjava.jvm_started()
    rd_pc,         \* "unloaded", "start", "opened", "done"
    rd_calls,      \* history: the backend calls the function has made
    rd_logs,       \* the log files opened for writing
    rd_ret,        \* what the function returned or raised
    \* convert_value
    cv_v,          \* the argument v
    cv_pc,         \* "start", "done"
    cv_ret,        \* what convert_value returned or raised
    \* convert_java_numeric_field
    cn_field,      \* the argument java_field
    cn_pc,         \* "start", "done"
    cn_ret,        \* what convert_java_numeric_field returned or raised
    \* the metadata read and read3 collect
    mt_file,       \* the file: the metadata of each of its series
    mt_done,       \* which of "read" and "read3" have collected them
    mt_md,         \* the dict of read, after tidy_metadata
    mt_core,       \* the CoreMetadata of read3
    \* ImageReaderWrapper
    wr_file,       \* the file the reader has open: its series and their planes
    wr_pc,         \* "new", "ready" (constructed), "failed" (__init__ raised)
    wr_dtype,      \* self.dtype
    wr_series,     \* the current series of the reader
    wr_call,       \* the arguments of the last call of read
    wr_ret,        \* what __init__ raised or the last read returned or raised
    wr_count       \* the number of calls of read made

md_vars == <<xml_md, filepath, disk, open_handles, pc, run, ki, md, mdd, exc,
             probes, written>>
diff_vars == <<fp_a, fp_b, d_pc, d_ret>>
nt_vars == <<nt_llist, nt_s, nt_pc, nt_ret, fz_pc, fz_ret>>
g_vars == <<g_acc, g_npar, g_pc, g_w, g_ret>>
st_vars == <<st_fn, st_file, st_planes, st_pc, st_tilemap, st_reads, st_ret>>
rd_vars == <<rd_fn, rd_path, rd_fs, rd_jvm, rd_pc, rd_calls, rd_logs, rd_ret>>
cv_vars == <<cv_v, cv_pc, cv_ret, cn_field, cn_pc, cn_ret>>
mt_vars == <<mt_file, mt_done, mt_md, mt_core>>
wr_vars == <<wr_file, wr_pc, wr_dtype, wr_series, wr_call, wr_ret, wr_count>>

vars == <<md_vars, diff_vars, nt_vars, g_vars, st_vars, rd_vars, cv_vars, mt_vars,
         wr_vars>>

\* The variables get_md_dict does not touch.
not_md == <<diff_vars, nt_vars, g_vars, st_vars, rd_vars, cv_vars, mt_vars, wr_vars>>

\* A dict with d[k] = v set.
DictSet(d, k, v) == [x \in DOMAIN d \cup {k} |-> IF x = k THEN v ELSE d[x]]
EmptyDict == <<>>

S_file == <<"a", ".", "t", "i", "f">>
S_mmdata_log == <<".", "m", "m", "d", "a", "t", "a", ".", "l", "o", "g">>

\* filepath + ".mmdata.log"
LogPath(fp) == fp \o S_mmdata_log

\* if filepath: None and "" are false.
Truthy(fp) == fp # None

\* str((k, type(e), e, "--", npar)) + "\n", line 1207.
LogLine(k, e, npar) ==
    [key |-> k, type |-> e, value |-> e, sep |-> "--", npar |-> npar]

\* A faulty variant of OpenForWriting: open(path, "a"), which keeps the lines
\* the file has.
OpenForAppending(d, path) == IF path \in DOMAIN d THEN d ELSE DictSet(d, path, <<>>)

\* open(path, "w"), line 1185: the file is created or truncated.
OpenForWriting(d, path) == DictSet(d, path, <<>>)

\* javaexception_logfile.write(line)
WriteLine(d, path, line) == DictSet(d, path, Append(d[path], line))

\* v is not None, line 1196.
IsNone(c) == c.shape = "object" /\ c.tag = "NoneType"

Backends ==
    UNION {[KeySet -> Accessors(wrong)] : wrong \in WrongSignature}

\* The variables of the other operations, at rest.
NoCall == [exc |-> "unset", val |-> <<>>]
NoGrouped == [exc |-> "unset", val |-> <<>>, calls |-> 0]
NoWalk == WalkState(<<>>, TRUE, <<>>, 0, "none", FALSE)
NoFile == [md |-> <<>>, planes |-> <<>>]
DiffIdle == fp_a = NoFile /\ fp_b = NoFile /\ d_pc = "idle" /\ d_ret = [exc |-> "unset", val |-> FALSE]
TupleIdle ==
    /\ nt_llist = <<>> /\ nt_s = FALSE /\ nt_pc = "idle" /\ nt_ret = NoCall
    /\ fz_pc = "idle" /\ fz_ret = None
GroupIdle == g_acc = <<>> /\ g_npar = 0 /\ g_pc = "idle" /\ g_w = NoWalk /\ g_ret = NoGrouped
StitchIdle ==
    /\ st_fn = "none"
    /\ st_file = <<>>
    /\ st_planes = <<>>
    /\ st_pc = "idle"
    /\ st_tilemap = <<>>
    /\ st_reads = <<>>
    /\ st_ret = NoCall
ReadIdle ==
    /\ rd_fn = "none"
    /\ rd_path = <<>>
    /\ rd_fs = <<>>
    /\ rd_jvm = FALSE
    /\ rd_pc = "idle"
    /\ rd_calls = <<>>
    /\ rd_logs = {}
    /\ rd_ret = NoCall
WrapperIdle ==
    /\ wr_file = <<>> /\ wr_pc = "idle" /\ wr_dtype = "none" /\ wr_series = 0
    /\ wr_call = <<>> /\ wr_ret = NoCall /\ wr_count = 0
MetaIdle == mt_file = <<>> /\ mt_done = {} /\ mt_md = <<>> /\ mt_core = <<>>
ConvertIdle ==
    /\ cv_v = NoneCell /\ cv_pc = "idle" /\ cv_ret = CV("unset", PyNone, "", FALSE)
    /\ cn_field = NoneCell /\ cn_pc = "idle" /\ cn_ret = CV("unset", PyNone, "", FALSE)
MdIdle ==
    /\ xml_md = <<>>
    /\ filepath = None
    /\ disk = <<>>
    /\ open_handles = 0
    /\ pc = "idle"
    /\ run = MaxRuns
    /\ ki = 1
    /\ md = <<>>
    /\ mdd = <<>>
    /\ exc = "none"
    /\ probes = <<>>
    /\ written = <<>>

Init ==
    /\ DiffIdle /\ TupleIdle /\ GroupIdle /\ StitchIdle /\ ReadIdle /\ ConvertIdle /\ MetaIdle
    /\ WrapperIdle
    /\ xml_md \in Backends
    /\ filepath \in {None, S_file}
    /\ disk = EmptyDict
    /\ open_handles = 0
    /\ pc = "idle"
    /\ run = 0
    /\ ki = 1
    /\ md = EmptyDict
    /\ mdd = EmptyDict
    /\ exc = "none"
    /\ probes = EmptyDict
    /\ written = <<>>

\* Lines 1169-1185: get_md_dict is called with the backend and the path.
Call ==
    /\ pc \in {"idle", "returned", "raised"}
    /\ run < MaxRuns
    /\ run' = run + 1
    /\ pc' = "loop"
    /\ ki' = 1
    /\ md' = EmptyDict
    /\ mdd' = EmptyDict
    /\ exc' = "none"
    /\ probes' = EmptyDict
    /\ written' = Append(written, <<>>)
    /\ IF Truthy(filepath)
       THEN /\ disk' = OpenForWriting(disk, LogPath(filepath))
            /\ open_handles' = open_handles + 1
       ELSE UNCHANGED <<disk, open_handles>>
    /\ UNCHANGED <<not_md, xml_md, filepath>>

InLoop == pc = "loop" /\ ki <= Len(Keys)

\* Lines 1187-1194, all five probes raising TypeError or RuntimeError: the
\* for loop ends, nothing is recorded. p is the result of the probes of k.
on_exhausted(k, p) ==
    /\ p.outcome = "exhausted"
    /\ probes' = DictSet(probes, k, p.tried)
    /\ ki' = ki + 1
    /\ UNCHANGED <<not_md, xml_md, filepath, disk, open_handles, pc, run, md, mdd, exc, written>>

KeySkipped == InLoop /\ on_exhausted(Keys[ki], Probe(xml_md[Keys[ki]]))

\* A faulty variant of log_exception: nothing is written.
log_exception_dropped(line) == UNCHANGED <<disk, written>>

\* Lines 1206-1207: the line is written when a path was given.
log_exception(line) ==
    IF Truthy(filepath)
    THEN /\ disk' = WriteLine(disk, LogPath(filepath), line)
         /\ written' = [written EXCEPT ![run] = Append(@, line)]
    ELSE UNCHANGED <<disk, written>>

\* Lines 1205-1209: a probe raised another exception.
on_exception(k, p) ==
    /\ p.outcome = "fault"
    /\ probes' = DictSet(probes, k, p.tried)
    /\ log_exception(LogLine(k, p.cell.exc, p.npar))
    /\ mdd' = DictSet(mdd, k, "Jmiss")
    /\ ki' = ki + 1
    /\ UNCHANGED <<not_md, xml_md, filepath, open_handles, pc, run, md, exc>>

KeyJmiss == InLoop /\ on_exception(Keys[ki], Probe(xml_md[Keys[ki]]))

\* A faulty variant of on_none: the commented-out line 1201, md[k[3:]] = None,
\* put back.
on_none_recorded(k, p) ==
    /\ p.outcome = "found"
    /\ IsNone(p.cell)
    /\ probes' = DictSet(probes, k, p.tried)
    /\ md' = DictSet(md, Stripped(k), <<>>)
    /\ mdd' = DictSet(mdd, k, "None")
    /\ ki' = ki + 1
    /\ UNCHANGED <<not_md, xml_md, filepath, disk, open_handles, pc, run, exc, written>>

\* Lines 1195-1203, v is None.
on_none(k, p) ==
    /\ p.outcome = "found"
    /\ IsNone(p.cell)
    /\ probes' = DictSet(probes, k, p.tried)
    /\ mdd' = DictSet(mdd, k, "None")
    /\ ki' = ki + 1
    /\ UNCHANGED <<not_md, xml_md, filepath, disk, open_handles, pc, run, md, exc, written>>

KeyNone == InLoop /\ on_none(Keys[ki], Probe(xml_md[Keys[ki]]))

\* v is not None, line 1196.
IsFound(p) == p.outcome = "found" /\ ~IsNone(p.cell)

\* Lines 1198-1199, g being what get_allvalues_grouped returned.
on_grouped(k, p, g) ==
    /\ g.exc = "none"
    /\ probes' = DictSet(probes, k, p.tried)
    /\ md' = DictSet(md, Stripped(k), g.val)
    /\ mdd' = DictSet(mdd, k, "Found")
    /\ ki' = ki + 1
    /\ UNCHANGED <<not_md, xml_md, filepath, disk, open_handles, pc, run, exc, written>>

on_found(k, acc, p) ==
    IsFound(p) /\ on_grouped(k, p, get_allvalues_grouped(acc.tab, p.npar))

KeyFound == InLoop /\ on_found(Keys[ki], xml_md[Keys[ki]], Probe(xml_md[Keys[ki]]))

\* Line 1198, get_allvalues_grouped raising: the exception is raised inside
\* the except FoundMetadataError clause, which no clause of the same try
\* statement handles, and leaves get_md_dict.
on_grouping_raised(k, p, g) ==
    /\ g.exc # "none"
    /\ probes' = DictSet(probes, k, p.tried)
    /\ exc' = g.exc
    /\ pc' = "raised"
    /\ UNCHANGED <<not_md, xml_md, filepath, disk, open_handles, run, ki, md, mdd, written>>

on_found_raising(k, acc, p) ==
    IsFound(p) /\ on_grouping_raised(k, p, get_allvalues_grouped(acc.tab, p.npar))

KeyAbort == InLoop /\ on_found_raising(Keys[ki], xml_md[Keys[ki]], Probe(xml_md[Keys[ki]]))

\* Lines 1210-1212: the loop is over, the log is closed, (md, mdd) returned.
Return ==
    /\ pc = "loop"
    /\ ki > Len(Keys)
    /\ pc' = "returned"
    /\ IF Truthy(filepath)
       THEN open_handles' = open_handles - 1
       ELSE UNCHANGED open_handles
    /\ UNCHANGED <<not_md, xml_md, filepath, disk, run, ki, md, mdd, exc, probes, written>>

Next ==
    \/ Call
    \/ KeySkipped
    \/ KeyJmiss
    \/ KeyNone
    \/ KeyFound
    \/ KeyAbort
    \/ Return

Spec == Init /\ [][Next]_vars

\* ------------------------------------------------------------------- diff

\* A file as read() gives it: the tidied metadata md and, behind the wrapper,
\* the plane of every (series, t, c, z). A plane is the sequence of its
\* pixels.
Formats == {"OME-TIFF", "TIFF"}
Pixels == 0..1
Planes == {<<x>> : x \in Pixels}
Channels == 1..2

PlaneIndexes(m) ==
    (0..(m.SizeS - 1)) \X (0..(m.SizeT - 1)) \X (0..(m.SizeC - 1)) \X (0..(m.SizeZ - 1))

FilesWith(m) == {[md |-> m, planes |-> pl] : pl \in [PlaneIndexes(m) -> Planes]}

Files ==
    UNION {FilesWith([Format |-> f, SizeS |-> ss, SizeT |-> 1, SizeC |-> sc, SizeZ |-> 1]) :
             f \in Formats, ss \in 1..MaxSeries, sc \in Channels}

\* The n-th (s, t, c, z) of the nested loops of lines 844-847, n from 0.
PlaneNo(m, n) ==
    << n \div (m.SizeT * m.SizeC * m.SizeZ),
       (n \div (m.SizeC * m.SizeZ)) % m.SizeT,
       (n \div m.SizeZ) % m.SizeC,
       n % m.SizeZ >>

PlaneCount(m) == m.SizeS * m.SizeT * m.SizeC * m.SizeZ

\* wr.read(series=s, t=t, c=c, z=z): the plane, or the exception the reader
\* raises for an index the file does not have.
WrapperRead(file, i) ==
    IF i \in DOMAIN file.planes THEN [exc |-> "none", val |-> file.planes[i]]
    ELSE [exc |-> "JavaException", val |-> <<>>]

\* np.array_equal
array_equal(x, y) == x = y

DRet(e, b) == [exc |-> e, val |-> b]

\* all(...) of lines 839-848, from the n-th plane on: the first read that
\* raises ends diff, the first unequal pair ends all() with False.
comparePlane(x, y, rest) ==
    IF x.exc # "none" THEN DRet(x.exc, FALSE)
    ELSE IF y.exc # "none" THEN DRet(y.exc, FALSE)
    ELSE IF ~array_equal(x.val, y.val) THEN DRet("none", FALSE)
    ELSE rest

RECURSIVE allPlanesEqual(_, _, _)
allPlanesEqual(a, b, n) ==
    IF n >= PlaneCount(a.md) THEN DRet("none", TRUE)
    ELSE comparePlane(WrapperRead(a, PlaneNo(a.md, n)), WrapperRead(b, PlaneNo(a.md, n)),
                      allPlanesEqual(a, b, n + 1))

\* Line 832: are_equal after the metadata are compared.
metadataEqual(a, b) == TRUE /\ (a.md = b.md)

\* Line 839: are_equal is assigned the result of all(...); its value of line
\* 832 is not read again.
diff(a, b) == allPlanesEqual(a, b, 0)

not_diff == <<md_vars, nt_vars, g_vars, st_vars, rd_vars, cv_vars, mt_vars, wr_vars>>

InitDiff ==
    /\ MdIdle /\ TupleIdle /\ GroupIdle /\ StitchIdle /\ ReadIdle /\ ConvertIdle /\ MetaIdle
    /\ WrapperIdle
    /\ fp_a \in Files
    /\ fp_b \in Files
    /\ d_pc = "start"
    /\ d_ret = DRet("unset", FALSE)

Diff ==
    /\ d_pc = "start"
    /\ d_ret' = diff(fp_a, fp_b)
    /\ d_pc' = "done"
    /\ UNCHANGED <<not_diff, fp_a, fp_b>>

NextDiff == Diff

SpecDiff == InitDiff /\ [][NextDiff]_vars

\* ------------------------------------------------------ calls of next_tuple

Tuples == UNION {[1..n -> 0..MaxElem] : n \in Arities}

not_nt == <<md_vars, diff_vars, g_vars, st_vars, rd_vars, cv_vars, mt_vars, wr_vars>>

InitTuple ==
    /\ MdIdle /\ DiffIdle /\ GroupIdle /\ StitchIdle /\ ReadIdle /\ ConvertIdle /\ MetaIdle
    /\ WrapperIdle
    /\ nt_llist \in Tuples
    /\ nt_s \in BOOLEAN
    /\ nt_pc = "start"
    /\ nt_ret = NoCall
    /\ fz_pc = "start"
    /\ fz_ret = None

\* Lines 1299-1355: next_tuple(llist, s).
NextTuple ==
    /\ nt_pc = "start"
    /\ nt_ret' = next_tuple(nt_llist, nt_s)
    /\ nt_pc' = "done"
    /\ UNCHANGED <<not_nt, nt_llist, nt_s, fz_pc, fz_ret>>

\* Lines 852-876: first_nonzero_reverse(llist).
FirstNonzero ==
    /\ fz_pc = "start"
    /\ fz_ret' = first_nonzero_reverse(nt_llist)
    /\ fz_pc' = "done"
    /\ UNCHANGED <<not_nt, nt_llist, nt_s, nt_pc, nt_ret>>

TupleCalls ==
    \/ NextTuple
    \/ FirstNonzero

SpecTuple == InitTuple /\ [][TupleCalls]_vars

\* ------------------------------------------- calls of get_allvalues_grouped

\* The answers an accessor gives at one index tuple.
GroupCells == {Raised("JavaException"), Plain("int", <<"1">>), Plain("int", <<"2">>)}

\* The arities of the accessors whose answers are enumerated in full.
GroupArities == 0..2

not_g == <<md_vars, diff_vars, nt_vars, st_vars, rd_vars, cv_vars, mt_vars, wr_vars>>

InitGroup ==
    /\ MdIdle /\ DiffIdle /\ TupleIdle /\ StitchIdle /\ ReadIdle /\ ConvertIdle /\ MetaIdle
    /\ WrapperIdle
    /\ g_npar \in GroupArities
    /\ g_acc \in [Box(g_npar) -> GroupCells]
    /\ g_pc = "start"
    /\ g_w = NoWalk
    /\ g_ret = NoGrouped

\* Lines 1380-1385.
GroupFirst ==
    /\ g_pc = "start"
    /\ g_w' = WalkFirst(g_acc, g_npar)
    /\ g_pc' = "loop"
    /\ UNCHANGED <<not_g, g_acc, g_npar, g_ret>>

\* Lines 1386-1396: one iteration of the while loop.
GroupStep ==
    /\ g_pc = "loop"
    /\ ~g_w.done
    /\ g_w' = WalkStep(g_acc, g_w)
    /\ UNCHANGED <<not_g, g_acc, g_npar, g_pc, g_ret>>

\* Lines 1397-1423, or the exception of the first call leaving the function.
GroupTidy ==
    /\ g_pc = "loop"
    /\ g_w.done
    /\ g_ret' = Grouped(g_w)
    /\ g_pc' = "done"
    /\ UNCHANGED <<not_g, g_acc, g_npar, g_w>>

NextGroup ==
    \/ GroupFirst
    \/ GroupStep
    \/ GroupTidy

SpecGroup == InitGroup /\ [][NextGroup]_vars

\* The accessors whose walk is followed to its end: at each index tuple they
\* raise or give a value.
WalkCells == {Raised("JavaException"), Plain("int", <<"1">>)}

InitGroupLive ==
    /\ MdIdle /\ DiffIdle /\ TupleIdle /\ StitchIdle /\ ReadIdle /\ ConvertIdle /\ MetaIdle
    /\ WrapperIdle
    /\ g_npar \in GroupArities
    /\ g_acc \in [Box(g_npar) -> WalkCells]
    /\ g_pc = "start"
    /\ g_w = NoWalk
    /\ g_ret = NoGrouped

\* The function, once called, runs on: no step of it waits for anything.
SpecGroupLive == InitGroupLive /\ [][NextGroup]_vars /\ WF_vars(NextGroup)

\* --------------------------------------------- fill_metadata, CoreMetadata

\* The stage coordinates the planes of the modelled files report.
Coords == 0..1
Positions == Coords \X Coords \X Coords

\* What the planes of one series say of the stage: fault is true when asking
\* a plane for its position raises (the plane has none), pos is the set of
\* the positions of the planes otherwise.
\* The other metadata of a series, as the backend gives them: the sizes, the
\* significant bits, the name (a str), the acquisition date (a str, or None
\* when asking for it raises) and the physical sizes, in units of 10^-7, or
\* None when asking for them raises.
BaseSeries ==
    [size_x |-> 2, size_y |-> 1, size_c |-> 1, size_z |-> 1, size_t |-> 1, bits |-> 8,
     name |-> <<"a">>, date |-> <<"d">>,
     psx |-> <<5000000>>, psy |-> <<5000000>>, psz |-> <<5000000>>,
     fault |-> FALSE, pos |-> {<<0, 0, 0>>}]

SeriesInfo(fault, pos) == [BaseSeries EXCEPT !.fault = fault, !.pos = pos]

SeriesInfos ==
    {SeriesInfo(TRUE, {})}
    \cup {SeriesInfo(FALSE, {})}
    \cup {SeriesInfo(FALSE, {p}) : p \in Positions}
    \cup {SeriesInfo(FALSE, {<<0, 0, 0>>, q}) : q \in {<<0, 0, 1>>, <<1, 0, 0>>}}

\* The sizes (SizeY, SizeX) of the planes of a modelled file, the same in all
\* its series.
TileShapes == {<<1, 2>>, <<2, 1>>}

\* The sequences over S of lengths 1..n.
SeqsUpTo(S, n) == UNION {[1..m -> S] : m \in 1..n}

\* A file: the size of its planes and, for each series, its stage positions.
\* The series si with planes of the size sh.
Sized(sh, si) == [si EXCEPT !.size_y = sh[1], !.size_x = sh[2]]

StitchFiles ==
    {[size |-> sh, series |-> [i \in DOMAIN sr |-> Sized(sh, sr[i])]] :
        sh \in TileShapes, sr \in SeqsUpTo(SeriesInfos, MaxSeries)}

\* The series of the files whose metadata are collected: BaseSeries and the
\* series that differ from it in one datum.
SeriesVariants ==
    {BaseSeries,
     [BaseSeries EXCEPT !.size_x = 1], [BaseSeries EXCEPT !.size_y = 2],
     [BaseSeries EXCEPT !.size_c = 2], [BaseSeries EXCEPT !.size_z = 2],
     [BaseSeries EXCEPT !.size_t = 2], [BaseSeries EXCEPT !.bits = 16],
     [BaseSeries EXCEPT !.name = <<"b">>], [BaseSeries EXCEPT !.date = None],
     [BaseSeries EXCEPT !.psx = None], [BaseSeries EXCEPT !.psx = <<5000004>>],
     [BaseSeries EXCEPT !.psz = <<2500000>>],
     SeriesInfo(TRUE, {}), SeriesInfo(FALSE, {}), SeriesInfo(FALSE, {<<1, 0, 0>>}),
     SeriesInfo(FALSE, {<<0, 0, 0>>, <<1, 0, 0>>})}

MetaFiles == {[series |-> sr] : sr \in SeqsUpTo(SeriesVariants, MaxSeries)}

\* round(float(value), 6) of a value given in units of 10^-7, in units of
\* 10^-6, or None when value is None (float(None) raises).
physical_size(value) ==
    IF value = None THEN None ELSE <<(value[1] + 5) \div 10>>

\* Lines 270-280 of fill_metadata: pos is the set of the positions, or None.
PositionXYZ(si) ==
    IF si.fault THEN [none |-> TRUE, set |-> {}] ELSE [none |-> FALSE, set |-> si.pos]

\* The keys of the dict of a series.
SeriesKeys ==
    {"PhysicalSizeX", "PhysicalSizeY", "PhysicalSizeZ", "SizeX", "SizeY", "SizeC",
     "SizeZ", "SizeT", "Bits", "Name", "Date", "PositionXYZ"}

\* Lines 251-296: the dict of one series.
SeriesDict(si) ==
    [k \in SeriesKeys |->
        CASE k = "PhysicalSizeX" -> physical_size(si.psx)
          [] k = "PhysicalSizeY" -> physical_size(si.psy)
          [] k = "PhysicalSizeZ" -> physical_size(si.psz)
          [] k = "SizeX" -> si.size_x
          [] k = "SizeY" -> si.size_y
          [] k = "SizeC" -> si.size_c
          [] k = "SizeZ" -> si.size_z
          [] k = "SizeT" -> si.size_t
          [] k = "Bits" -> si.bits
          [] k = "Name" -> si.name
          [] k = "Date" -> si.date
          [] k = "PositionXYZ" -> PositionXYZ(si)]

\* init_metadata and fill_metadata: the metadata dict before it is tidied.
\* top holds the first-level keys other than "series".
fill_metadata(file) ==
    [top |-> [k \in {"SizeS"} |-> Len(file.series)],
     series |-> [i \in 1..Len(file.series) |-> SeriesDict(file.series[i])],
     has_series |-> TRUE]

\* d.update(e) and d without the keys of K.
DictUpdate(d, e) ==
    [x \in DOMAIN d \cup DOMAIN e |-> IF x \in DOMAIN e THEN e[x] ELSE d[x]]
DictDrop(d, K) == [x \in DOMAIN d \ K |-> d[x]]

\* A faulty variant of keys_samevalue: every key is taken for common.
keys_anyvalue(series) == DOMAIN series[1]

\* Lines 319-322: the keys whose value is the same in all series.
keys_samevalue(series) ==
    {k \in DOMAIN series[1] : \A i \in 1..Len(series) : series[i][k] = series[1][k]}

\* Lines 323-326: the keys of same leave every series dict and become
\* first-level keys.
tidy_common(meta, same) ==
    [top |-> DictUpdate(meta.top, [k \in same |-> meta.series[Len(meta.series)][k]]),
     series |-> [i \in 1..Len(meta.series) |-> DictDrop(meta.series[i], same)],
     has_series |-> TRUE]

\* Lines 311-326.
tidy_metadata(meta) ==
    IF Len(meta.series) = 1
    THEN [top |-> DictUpdate(meta.top, meta.series[1]), series |-> <<>>, has_series |-> FALSE]
    ELSE IF Len(meta.series) > 1 THEN tidy_common(meta, keys_samevalue(meta.series))
    ELSE meta

\* The metadata dict read() returns, lines 485-487.
ReadMetadata(file) == tidy_metadata(fill_metadata(file))

\* StagePosition | None
NoPosition == [none |-> TRUE, xyz |-> <<>>]
StagePosition(xyz) == [none |-> FALSE, xyz |-> xyz]

\* CoreMetadata._get_stage_positions, lines 170-190: the position of the
\* planes when there is exactly one, None otherwise.
get_stage_positions(si) ==
    IF si.fault \/ Cardinality(si.pos) # 1 THEN NoPosition
    ELSE StagePosition(CHOOSE p \in si.pos : TRUE)

\* A faulty variant of Consolidate: the first element is kept whatever the
\* others are.
ConsolidateFirst(values) == << values[1] >>

\* Lines 167-168 of CoreMetadata.__post_init__: a list whose elements are all
\* the same becomes the list of that one element.
Consolidate(values) ==
    IF Cardinality({values[i] : i \in 1..Len(values)}) = 1 THEN << values[1] >> ELSE values

\* VoxelSize(x, y, z), lines 147-153.
VoxelSize(si) ==
    [x |-> physical_size(si.psx), y |-> physical_size(si.psy), z |-> physical_size(si.psz)]

\* The fields of CoreMetadata that are lists with one element per series.
CoreFields ==
    {"size_x", "size_y", "size_c", "size_z", "size_t", "bits", "name", "date",
     "stage_position", "voxel_size"}

\* Lines 120-154: what one series appends to the list of the field f.
SeriesField(si, f) ==
    CASE f = "size_x" -> si.size_x
      [] f = "size_y" -> si.size_y
      [] f = "size_c" -> si.size_c
      [] f = "size_z" -> si.size_z
      [] f = "size_t" -> si.size_t
      [] f = "bits" -> si.bits
      [] f = "name" -> si.name
      [] f = "date" -> si.date
      [] f = "stage_position" -> get_stage_positions(si)
      [] f = "voxel_size" -> VoxelSize(si)

\* The list of the field f after the loop of lines 120-154.
PerSeries(file, f) == [i \in 1..Len(file.series) |-> SeriesField(file.series[i], f)]

\* CoreMetadata.__post_init__, lines 116-168: the consolidated lists.
CoreMetadata(file) == [f \in CoreFields |-> Consolidate(PerSeries(file, f))]

\* ------------------------------------------------------- stitch, stitch3

\* The positions of the checked series, or the exception that ends the call.
Checked(e, xy) == [exc |-> e, xy |-> xy]

\* Line 717: all(len(p) == 1 for p in xyz_list_of_sets), from the i-th set
\* on. len(None) raises TypeError; the first set of another length ends all()
\* with False.
RECURSIVE all_single(_, _)
all_single(sets, i) ==
    IF i > Len(sets) THEN "none"
    ELSE IF sets[i].none THEN "TypeError"
    ELSE IF Cardinality(sets[i].set) # 1 THEN "ValueError"
    ELSE all_single(sets, i + 1)

\* next(iter(p))[:2]
xy_of(xyz) == <<xyz[1], xyz[2]>>

\* Lines 717-720, xyz_list_of_sets being sets.
check_sets(sets) ==
    IF all_single(sets, 1) # "none" THEN Checked(all_single(sets, 1), <<>>)
    ELSE Checked("none", [i \in 1..Len(sets) |-> xy_of(CHOOSE p \in sets[i].set : TRUE)])

\* Lines 716-720 of stitch: md["series"] and p["PositionXYZ"] raise KeyError
\* for a key tidy_metadata has moved.
stitch_positions(meta) ==
    IF ~meta.has_series THEN Checked("KeyError", <<>>)
    ELSE IF \E i \in 1..Len(meta.series) : "PositionXYZ" \notin DOMAIN meta.series[i]
    THEN Checked("KeyError", <<>>)
    ELSE check_sets([i \in 1..Len(meta.series) |-> meta.series[i]["PositionXYZ"]])

\* Lines 780-784 of stitch3: p.x raises AttributeError for p None; every set
\* built has one element.
stitch3_positions(meta) ==
    IF \E i \in 1..Len(meta.stage_position) : meta.stage_position[i].none
    THEN Checked("AttributeError", <<>>)
    ELSE Checked("none", [i \in 1..Len(meta.stage_position) |-> xy_of(meta.stage_position[i].xyz)])

\* np.sort(list(S)): the elements of S in ascending order.
RECURSIVE np_sort(_)
np_sort(S) ==
    IF S = {} THEN <<>>
    ELSE <<CHOOSE x \in S : \A y \in S : x <= y>>
             \o np_sort(S \ {CHOOSE x \in S : \A y \in S : x <= y})

\* Lines 721-722 (785-786).
unique_x(xy) == np_sort({xy[i][1] : i \in 1..Len(xy)})
unique_y(xy) == np_sort({xy[i][2] : i \in 1..Len(xy)})

\* Line 729 (793): the indexes of the series at (x, y), from 0.
indexes(xy, x, y) == {i - 1 : i \in {j \in 1..Len(xy) : xy[j] = <<x, y>>}}

\* Lines 730-734 (794-798): the entry of the tilemap for the indexes found.
tile_entry(ix) == IF ix = {} THEN -1 ELSE CHOOSE i \in ix : TRUE

\* Lines 726-737 (790-801): the tilemap over the rows ys and the columns xs,
\* or IndexError when some cell has more than one series.
build_tilemap(xy, ys, xs) ==
    IF \E yi \in 1..Len(ys), xi \in 1..Len(xs) : Cardinality(indexes(xy, xs[xi], ys[yi])) > 1
    THEN [exc |-> "IndexError", val |-> <<>>]
    ELSE [exc |-> "none",
          val |-> [yi \in 1..Len(ys) |-> [xi \in 1..Len(xs) |-> tile_entry(indexes(xy, xs[xi], ys[yi]))]]]

tilemap_of(xy) == build_tilemap(xy, unique_y(xy), unique_x(xy))

\* The planes wrapper.read gives for a file: for each series, one of two
\* arrays of the size of the file, indexed by (row, column) from 0.
PlaneCells(size) == (0..(size[1] - 1)) \X (0..(size[2] - 1))
PlaneA(size) == [rc \in PlaneCells(size) |-> 1 + rc[1] * size[2] + rc[2]]
PlaneB(size) == [rc \in PlaneCells(size) |-> 7 - rc[1] * size[2] - rc[2]]
WrapperPlanes(file) == [1..Len(file.series) -> {PlaneA(file.size), PlaneB(file.size)}]

\* Variant of tile_pixel: the plane of the first series is read for every tile.
tile_pixel_first(planes, s, r, c) == IF s >= 0 THEN planes[1][<<r, c>>] ELSE 0

\* Lines 741-745 (805-809): the pixel (r, c) of tiled_plane, inside the block
\* of the tile s: the pixel of the plane read for s, or the zero of np.zeros.
tile_pixel(planes, s, r, c) == IF s >= 0 THEN planes[s + 1][<<r, c>>] ELSE 0

\* Lines 738-746 (802-810): tiled_plane, sy and sx being the sizes of a tile.
tiled_plane(tilemap, planes, sy, sx) ==
    [rc \in (0..(sy * Len(tilemap) - 1)) \X (0..(sx * Len(tilemap[1]) - 1)) |->
        tile_pixel(planes, tilemap[(rc[1] \div sy) + 1][(rc[2] \div sx) + 1],
                   rc[1] % sy, rc[2] % sx)]

\* The series read at lines 745 (809), in the order of the loops.
RECURSIVE reads_from(_, _)
reads_from(tilemap, n) ==
    IF n >= Len(tilemap) * Len(tilemap[1]) THEN <<>>
    ELSE (IF tilemap[(n \div Len(tilemap[1])) + 1][(n % Len(tilemap[1])) + 1] >= 0
          THEN <<tilemap[(n \div Len(tilemap[1])) + 1][(n % Len(tilemap[1])) + 1]>>
          ELSE <<>>) \o reads_from(tilemap, n + 1)

\* md["SizeY"] and md["SizeX"], line 738, or md.size_y[0] and md.size_x[0],
\* line 802.
TileSize(fn, file) ==
    IF fn = "stitch"
    THEN <<ReadMetadata(file).top["SizeY"], ReadMetadata(file).top["SizeX"]>>
    ELSE <<CoreMetadata(file).size_y[1], CoreMetadata(file).size_x[1]>>

\* The positions the called function works with.
PositionsOf(fn, file) ==
    IF fn = "stitch" THEN stitch_positions(ReadMetadata(file))
    ELSE stitch3_positions(CoreMetadata(file))

not_st == <<md_vars, diff_vars, nt_vars, g_vars, rd_vars, cv_vars, mt_vars, wr_vars>>

InitStitch ==
    /\ MdIdle /\ DiffIdle /\ TupleIdle /\ GroupIdle /\ ReadIdle /\ ConvertIdle /\ MetaIdle
    /\ WrapperIdle
    /\ st_fn \in {"stitch", "stitch3"}
    /\ st_file \in StitchFiles
    /\ st_planes \in WrapperPlanes(st_file)
    /\ st_pc = "start"
    /\ st_tilemap = <<>>
    /\ st_reads = <<>>
    /\ st_ret = NoCall

\* Lines 716-719 (780-783), an exception leaving the function.
StitchRefuse ==
    /\ st_pc = "start"
    /\ PositionsOf(st_fn, st_file).exc # "none"
    /\ st_ret' = Raise(PositionsOf(st_fn, st_file).exc)
    /\ st_pc' = "done"
    /\ UNCHANGED <<not_st, st_fn, st_file, st_planes, st_tilemap, st_reads>>

\* Lines 716-720 (780-784), every series having one position.
StitchCheck ==
    /\ st_pc = "start"
    /\ PositionsOf(st_fn, st_file).exc = "none"
    /\ st_pc' = "tilemap"
    /\ UNCHANGED <<not_st, st_fn, st_file, st_planes, st_tilemap, st_reads, st_ret>>

\* Lines 721-737 (785-801), IndexError leaving the function.
StitchAmbiguous ==
    /\ st_pc = "tilemap"
    /\ tilemap_of(PositionsOf(st_fn, st_file).xy).exc # "none"
    /\ st_ret' = Raise(tilemap_of(PositionsOf(st_fn, st_file).xy).exc)
    /\ st_pc' = "done"
    /\ UNCHANGED <<not_st, st_fn, st_file, st_planes, st_tilemap, st_reads>>

\* Lines 721-737 (785-801), the tilemap built.
StitchTilemap ==
    /\ st_pc = "tilemap"
    /\ tilemap_of(PositionsOf(st_fn, st_file).xy).exc = "none"
    /\ st_tilemap' = tilemap_of(PositionsOf(st_fn, st_file).xy).val
    /\ st_pc' = "fill"
    /\ UNCHANGED <<not_st, st_fn, st_file, st_planes, st_reads, st_ret>>

\* Lines 738-746 (802-810): the tiles are read and tiled_plane is returned.
StitchFill ==
    /\ st_pc = "fill"
    /\ st_reads' = reads_from(st_tilemap, 0)
    /\ st_ret' = Ok(tiled_plane(st_tilemap, st_planes,
                                TileSize(st_fn, st_file)[1], TileSize(st_fn, st_file)[2]))
    /\ st_pc' = "done"
    /\ UNCHANGED <<not_st, st_fn, st_file, st_planes, st_tilemap>>

NextStitch ==
    \/ StitchRefuse
    \/ StitchCheck
    \/ StitchAmbiguous
    \/ StitchTilemap
    \/ StitchFill

SpecStitch == InitStitch /\ [][NextStitch]_vars

\* ----------------------------------------------------------- read, read3

\* The paths read is called with and the file system holds.
ReadPaths == {S_file, <<"b">>, <<"d", "/", "c">>}

\* What an existing path is: an image file, a file Bio-Formats cannot open,
\* or a directory.
PathKinds == {"image", "other", "dir"}

FileSystems == UNION {[S -> PathKinds] : S \in SUBSET ReadPaths}

\* A variant of isfile: every path is taken for a file.
isfile_any(fs, path) == TRUE

\* os.path.isfile(filepath), lines 474 and 536.
isfile(fs, path) == path \in DOMAIN fs /\ fs[path] # "dir"

\* "File not found: "
S_not_found == <<"F", "i", "l", "e", " ", "n", "o", "t", " ", "f", "o", "u", "n", "d", ":", " ">>

\* FileNotFoundError(f"File not found: {filepath}"), lines 475-476 and 537-538.
FileNotFoundError(path) == [exc |-> "FileNotFoundError", val |-> S_not_found \o path]

\* Lines 477-478 and 539-540: the calls that make sure the JVM runs.
jvm_calls(started) ==
    IF started THEN <<"jvm_started">> ELSE <<"jvm_started", "start_loci">>

\* Lines 480-482 of read and 542-544 of read3: the calls that open the file.
reader_calls(fn) ==
    IF fn = "read" THEN <<"Memoizer", "createOMEXMLMetadata", "setMetadataStore", "setId">>
    ELSE <<"Memoizer", "setId">>

not_rd == <<md_vars, diff_vars, nt_vars, g_vars, st_vars, cv_vars, mt_vars, wr_vars>>

\* Before the module is imported; another package may have started the JVM.
InitRead ==
    /\ MdIdle /\ DiffIdle /\ TupleIdle /\ GroupIdle /\ StitchIdle /\ ConvertIdle /\ MetaIdle
    /\ WrapperIdle
    /\ rd_fn \in {"read", "read3"}
    /\ rd_path \in ReadPaths
    /\ rd_fs \in FileSystems
    /\ rd_jvm \in BOOLEAN
    /\ rd_pc = "unloaded"
    /\ rd_calls = <<>>
    /\ rd_logs = {}
    /\ rd_ret = NoCall

\* Lines 52-53: importing the module starts the JVM when none runs.
Import ==
    /\ rd_pc = "unloaded"
    /\ rd_jvm' = TRUE
    /\ rd_pc' = "start"
    /\ UNCHANGED <<not_rd, rd_fn, rd_path, rd_fs, rd_calls, rd_logs, rd_ret>>

\* Lines 474-476 (536-538): the path is not an existing file.
ReadRefuse ==
    /\ rd_pc = "start"
    /\ ~isfile(rd_fs, rd_path)
    /\ rd_ret' = FileNotFoundError(rd_path)
    /\ rd_pc' = "done"
    /\ UNCHANGED <<not_rd, rd_fn, rd_path, rd_fs, rd_jvm, rd_calls, rd_logs>>

\* Lines 474-482 (536-544): the JVM runs, the reader is created and opens
\* the file.
ReadOpen ==
    /\ rd_pc = "start"
    /\ isfile(rd_fs, rd_path)
    /\ rd_path \in DOMAIN rd_fs /\ rd_fs[rd_path] = "image"
    /\ rd_calls' = jvm_calls(rd_jvm) \o reader_calls(rd_fn)
    /\ rd_jvm' = TRUE
    /\ rd_pc' = "opened"
    /\ UNCHANGED <<not_rd, rd_fn, rd_path, rd_fs, rd_logs, rd_ret>>

\* Lines 474-482 (536-544), setId raising for a file that is no image (or,
\* isfile being wrong, is no file).
ReadOpenRaises ==
    /\ rd_pc = "start"
    /\ isfile(rd_fs, rd_path)
    /\ ~(rd_path \in DOMAIN rd_fs /\ rd_fs[rd_path] = "image")
    /\ rd_calls' = jvm_calls(rd_jvm) \o reader_calls(rd_fn)
    /\ rd_jvm' = TRUE
    /\ rd_ret' = Raise("JavaException")
    /\ rd_pc' = "done"
    /\ UNCHANGED <<not_rd, rd_fn, rd_path, rd_fs, rd_logs>>

\* Lines 483-492 (545-550): the metadata are collected; get_md_dict opens
\* filepath + ".mmdata.log" for writing and returns or raises.
ReadReturn ==
    /\ rd_pc = "opened"
    /\ rd_logs' = rd_logs \cup {LogPath(rd_path)}
    /\ \E e \in {"none", "JavaException"} :
        rd_ret' = IF e = "none" THEN Ok(<<"md", "wrapper">>) ELSE Raise(e)
    /\ rd_pc' = "done"
    /\ UNCHANGED <<not_rd, rd_fn, rd_path, rd_fs, rd_jvm, rd_calls>>

NextRead ==
    \/ Import
    \/ ReadRefuse
    \/ ReadOpen
    \/ ReadOpenRaises
    \/ ReadReturn

SpecRead == InitRead /\ [][NextRead]_vars

\* ---------------------------------------------------- calls of convert_value

\* str() of the values convert_value is called with.
ConvertTexts ==
    {<<>>, <<"1">>, <<"0", "7">>, <<"-", "2">>, <<"0", ".", "5">>, <<"1", ".", "5", "0">>,
     <<"a">>, <<"n", "m">>}

\* The exceptions getValue(), value() and str() raise.
ConvertFaults == {"ValueError", "TypeError", "JavaException"}

\* The values convert_value is called with: Python values, Java objects with
\* getValue(), quantities with unit(), other objects and None, some of them
\* raising when they are asked for their payload or their text.
ConvertCells ==
    {Plain("str", t) : t \in ConvertTexts}
    \cup {Plain("int", t) : t \in {<<"1">>, <<"-", "2">>}}
    \cup {Plain("bool", t) : t \in {<<"T", "r", "u", "e">>, <<"F", "a", "l", "s", "e">>}}
    \cup {Plain("float", <<"0", ".", "5">>)}
    \cup {Wrapped(tag, t) : tag \in {"str", "java"}, t \in ConvertTexts}
    \cup {Wrapped("int", <<"1">>), Wrapped("float", <<"0", ".", "5">>), Wrapped("bool", <<"T", "r", "u", "e">>)}
    \cup {Quantity(t, sym) : t \in {<<"1">>, <<"0", ".", "5">>, <<"a">>}, sym \in {<<"n", "m">>, <<"s">>}}
    \cup {Object(t) : t \in ConvertTexts}
    \cup {WrappedFaulty(e) : e \in ConvertFaults}
    \cup {ObjectFaulty(e) : e \in ConvertFaults}
    \cup {Cell("none", "getValue", "java", <<>>, <<>>, "none", e) : e \in ConvertFaults}
    \cup {NoneCell}

\* str() of the fields convert_java_numeric_field is called with.
NumericTexts ==
    ConvertTexts
    \cup {<<"9", "7", "6">>, <<"0", ".", "9", "7", "6">>, <<"+", "3">>, <<".", "5">>,
          <<"1", ".">>, <<"-">>, <<".">>, <<"1", ".", "2", ".", "3">>, <<"-", "0">>,
          <<"T", "r", "u", "e">>}

\* The fields convert_java_numeric_field is called with: None, Java objects,
\* Python str, int and float values, and objects whose str() raises.
NumericFields ==
    {NoneCell}
    \cup {Object(t) : t \in NumericTexts}
    \cup {Plain("str", t) : t \in NumericTexts}
    \cup {Plain("int", <<"9", "7", "6">>), Plain("float", <<"0", ".", "9", "7", "6">>)}
    \cup {ObjectFaulty(e) : e \in ConvertFaults}

not_cv == <<md_vars, diff_vars, nt_vars, g_vars, st_vars, rd_vars, mt_vars, wr_vars>>

InitConvert ==
    /\ MdIdle /\ DiffIdle /\ TupleIdle /\ GroupIdle /\ StitchIdle /\ ReadIdle /\ MetaIdle
    /\ WrapperIdle
    /\ cv_v \in ConvertCells
    /\ cv_pc = "start"
    /\ cv_ret = CV("unset", PyNone, "", FALSE)
    /\ cn_field \in NumericFields
    /\ cn_pc = "start"
    /\ cn_ret = CV("unset", PyNone, "", FALSE)

\* Lines 1253-1290: convert_value(v).
Convert ==
    /\ cv_pc = "start"
    /\ cv_ret' = convert_value(cv_v)
    /\ cv_pc' = "done"
    /\ UNCHANGED <<not_cv, cv_v, cn_field, cn_pc, cn_ret>>

\* Lines 1215-1250: convert_java_numeric_field(java_field).
ConvertNumeric ==
    /\ cn_pc = "start"
    /\ cn_ret' = convert_java_numeric_field(cn_field)
    /\ cn_pc' = "done"
    /\ UNCHANGED <<not_cv, cv_v, cv_pc, cv_ret, cn_field>>

NextConvert ==
    \/ Convert
    \/ ConvertNumeric

SpecConvert == InitConvert /\ [][NextConvert]_vars

\* --------------------------------------- the metadata of read and of read3

not_mt == <<md_vars, diff_vars, nt_vars, g_vars, st_vars, rd_vars, cv_vars, wr_vars>>

InitMeta ==
    /\ MdIdle /\ DiffIdle /\ TupleIdle /\ GroupIdle /\ StitchIdle /\ ReadIdle /\ ConvertIdle
    /\ WrapperIdle
    /\ mt_file \in MetaFiles
    /\ mt_done = {}
    /\ mt_md = <<>>
    /\ mt_core = <<>>

\* Lines 483-487 of read: init_metadata, fill_metadata, tidy_metadata.
CollectDict ==
    /\ "read" \notin mt_done
    /\ mt_md' = ReadMetadata(mt_file)
    /\ mt_done' = mt_done \cup {"read"}
    /\ UNCHANGED <<not_mt, mt_file, mt_core>>

\* Line 545 of read3: CoreMetadata(rdr).
CollectCore ==
    /\ "read3" \notin mt_done
    /\ mt_core' = CoreMetadata(mt_file)
    /\ mt_done' = mt_done \cup {"read3"}
    /\ UNCHANGED <<not_mt, mt_file, mt_md>>

NextMeta ==
    \/ CollectDict
    \/ CollectCore

SpecMeta == InitMeta /\ [][NextMeta]_vars

\* ------------------------------------------------------ ImageReaderWrapper

\* A series of the file the reader has open: the size of its planes, the
\* number of its planes (one channel, one time point), its bits per pixel,
\* the byte order of the file and whether its pixels have the high values
\* of an unsigned pixel type.
PlainSeries ==
    [size_y |-> 1, size_x |-> 2, size_z |-> 2, bits |-> 8, little |-> TRUE, high |-> FALSE]

WrapperSeries ==
    {PlainSeries,
     [PlainSeries EXCEPT !.size_y = 2, !.size_x = 1],
     [PlainSeries EXCEPT !.size_z = 1],
     [PlainSeries EXCEPT !.bits = 16],
     [PlainSeries EXCEPT !.bits = 12],
     [PlainSeries EXCEPT !.bits = 16, !.little = FALSE],
     [PlainSeries EXCEPT !.bits = 32],
     [PlainSeries EXCEPT !.high = TRUE]}

WrapperFiles == SeqsUpTo(WrapperSeries, MaxSeries)

\* The pixel (y, x) of the plane idx of the series s (from 0) of the file.
PixelOf(file, s, idx, y, x) ==
    (IF file[s + 1].high THEN 200 ELSE 0) + 1 + x + 2 * y + 4 * idx + 8 * s

\* The (y, x) pixels of a plane of the series sr, row by row.
PixelOrder(sr) == [n \in 1..(sr.size_y * sr.size_x) |-> <<(n - 1) \div sr.size_x, (n - 1) % sr.size_x>>]

\* FormatTools.getBytesPerPixel of the pixel type of a series.
BytesPerPixel(sr) == IF sr.bits = 8 THEN 1 ELSE IF sr.bits \in {12, 16} THEN 2 ELSE 4

\* The bytes of the value v on n bytes, in the byte order of the file.
RECURSIVE LittleBytes(_, _)
LittleBytes(v, n) == IF n = 0 THEN <<>> ELSE <<v % 256>> \o LittleBytes(v \div 256, n - 1)
Reversed(b) == [i \in 1..Len(b) |-> b[Len(b) + 1 - i]]
PixelBytes(v, n, little) == IF little THEN LittleBytes(v, n) ELSE Reversed(LittleBytes(v, n))

\* rdr.openBytes(idx), line 376: the bytes of the plane idx of the current
\* series s, pixel after pixel.
RECURSIVE BytesFrom(_, _, _, _)
BytesFrom(file, s, idx, n) ==
    IF n > Len(PixelOrder(file[s + 1])) THEN <<>>
    ELSE PixelBytes(PixelOf(file, s, idx, PixelOrder(file[s + 1])[n][1], PixelOrder(file[s + 1])[n][2]),
                    BytesPerPixel(file[s + 1]), file[s + 1].little)
             \o BytesFrom(file, s, idx, n + 1)
openBytes(file, s, idx) == BytesFrom(file, s, idx, 1)

\* The bytes of an element of np.int8 and np.int16.
ItemSize(dtype) == IF dtype = "int8" THEN 1 ELSE 2

\* The signed little-endian integer of the bytes b.
RECURSIVE Unsigned256(_)
Unsigned256(b) == IF Len(b) = 0 THEN 0 ELSE b[1] + 256 * Unsigned256(Tail(b))
Pow256(n) == IF n = 1 THEN 256 ELSE 65536
SignedOf(b) ==
    IF 2 * Unsigned256(b) >= Pow256(Len(b)) THEN Unsigned256(b) - Pow256(Len(b))
    ELSE Unsigned256(b)

\* np.frombuffer(java_data, dtype=self.dtype), line 378: the elements, or
\* ValueError when the buffer is no multiple of the element size.
frombuffer(b, dtype) ==
    IF Len(b) % ItemSize(dtype) # 0 THEN Raise("ValueError")
    ELSE Ok([n \in 1..(Len(b) \div ItemSize(dtype)) |->
                SignedOf(SubSeq(b, (n - 1) * ItemSize(dtype) + 1, n * ItemSize(dtype)))])

\* np_data.reshape((getSizeY(), getSizeX())), line 380: the array indexed by
\* (y, x), or ValueError when the number of elements is not SizeY * SizeX.
reshape(data, sr) ==
    IF data.exc # "none" THEN data
    ELSE IF Len(data.val) # sr.size_y * sr.size_x THEN Raise("ValueError")
    ELSE Ok([yx \in (0..(sr.size_y - 1)) \X (0..(sr.size_x - 1)) |->
                data.val[yx[1] * sr.size_x + yx[2] + 1]])

\* rdr.getIndex(z, c, t), line 374, for c = 0 and t = 0.
getIndex(z) == z

\* ImageReaderWrapper.read, lines 372-382, after setSeries(series): the
\* array returned or the exception raised.
wrapper_read(file, dtype, series, z, rescale) ==
    reshape(frombuffer(openBytes(file, series, getIndex(z)), dtype), file[series + 1])

\* A faulty variant of get_dtype: every other bit depth is read as 16 bits.
get_dtype_lenient(bits_per_pixel) ==
    IF bits_per_pixel = 8 THEN Ok("int8") ELSE Ok("int16")

\* ImageReaderWrapper._get_dtype, lines 334-343.
get_dtype(bits_per_pixel) ==
    IF bits_per_pixel = 8 THEN Ok("int8")
    ELSE IF bits_per_pixel \in {12, 16} THEN Ok("int16")
    ELSE Raise("ValueError")

\* The arguments of a call of read.
ReadArgs(series, z, rescale) == [series |-> series, z |-> z, rescale |-> rescale]

not_wr == <<md_vars, diff_vars, nt_vars, g_vars, st_vars, rd_vars, cv_vars, mt_vars>>

\* The reader has opened the file and is at its first series.
InitWrapper ==
    /\ MdIdle /\ DiffIdle /\ TupleIdle /\ GroupIdle /\ StitchIdle /\ ReadIdle /\ ConvertIdle
    /\ MetaIdle
    /\ wr_file \in WrapperFiles
    /\ wr_pc = "new"
    /\ wr_dtype = "none"
    /\ wr_series = 0
    /\ wr_call = <<>>
    /\ wr_ret = NoCall
    /\ wr_count = 0

\* ImageReaderWrapper.__init__, lines 330-332, _get_dtype returning.
Construct ==
    /\ wr_pc = "new"
    /\ get_dtype(wr_file[wr_series + 1].bits).exc = "none"
    /\ wr_dtype' = get_dtype(wr_file[wr_series + 1].bits).val
    /\ wr_pc' = "ready"
    /\ UNCHANGED <<not_wr, wr_file, wr_series, wr_call, wr_ret, wr_count>>

\* ImageReaderWrapper.__init__, lines 330-332, _get_dtype raising.
ConstructRaises ==
    /\ wr_pc = "new"
    /\ get_dtype(wr_file[wr_series + 1].bits).exc # "none"
    /\ wr_ret' = Raise(get_dtype(wr_file[wr_series + 1].bits).exc)
    /\ wr_pc' = "failed"
    /\ UNCHANGED <<not_wr, wr_file, wr_dtype, wr_series, wr_call, wr_count>>

\* ImageReaderWrapper.read, lines 345-382, for a plane the file has.
ReadPlane ==
    /\ wr_pc = "ready"
    /\ wr_count < MaxReads
    /\ \E series \in 0..(Len(wr_file) - 1), rescale \in BOOLEAN :
        \E z \in 0..(wr_file[series + 1].size_z - 1) :
            /\ wr_call' = ReadArgs(series, z, rescale)
            /\ wr_series' = series
            /\ wr_ret' = wrapper_read(wr_file, wr_dtype, series, z, rescale)
    /\ wr_count' = wr_count + 1
    /\ UNCHANGED <<not_wr, wr_file, wr_pc, wr_dtype>>

NextWrapper ==
    \/ Construct
    \/ ConstructRaises
    \/ ReadPlane

SpecWrapper == InitWrapper /\ [][NextWrapper]_vars

\* ============================================================= properties

\* ------------------------------------------------------------------- diff

\* C1: diff(fp_a, fp_b) returns true if and only if the metadata of the two
\* files are equal and every (series, t, c, z) plane of the two files is
\* equal; with different metadata and equal planes it returns false.
C1_DiffTrueIffMetadataAndPlanesEqual ==
    d_pc = "done" =>
        (d_ret = DRet("none", TRUE)
            <=> (metadataEqual(fp_a, fp_b) /\ fp_a.planes = fp_b.planes))

\* The case of C1: the metadata differ, the planes are equal, and diff has
\* returned true.
C1_MetadataDifferPlanesEqual ==
    /\ d_pc = "done"
    /\ ~metadataEqual(fp_a, fp_b)
    /\ fp_a.planes = fp_b.planes
    /\ d_ret = DRet("none", TRUE)

\* ------------------------------------------------------------ get_md_dict

\* The probe of arity n does not raise a wrong-signature error.
Fits(acc, n) == CallKey(acc, Zeros(n)).exc \notin WrongSignature
HasFit(acc) == \E n \in Arities : Fits(acc, n)

\* The smallest arity whose probe does not raise a wrong-signature error.
SmallestFit(acc) ==
    CHOOSE n \in Arities : Fits(acc, n) /\ \A m \in 0..(n - 1) : ~Fits(acc, m)

\* The answer of the accessor at its smallest fitting arity.
FirstAnswer(acc) == CallKey(acc, Zeros(SmallestFit(acc)))

\* A probe of the key raises an error that is not a wrong-signature error.
ProbeFaults(acc) == HasFit(acc) /\ FirstAnswer(acc).exc # "none"

\* The accessor returns None at its discovered arity.
ReturnsNone(acc) ==
    HasFit(acc) /\ FirstAnswer(acc).exc = "none" /\ IsNone(FirstAnswer(acc))

\* The value grouping of the key raises.
GroupingFaults(acc) ==
    /\ HasFit(acc)
    /\ FirstAnswer(acc).exc = "none"
    /\ ~IsNone(FirstAnswer(acc))
    /\ get_allvalues_grouped(acc.tab, SmallestFit(acc)).exc # "none"

\* <<0, ..., n>>
UpTo(n) == [j \in 1..(n + 1) |-> j - 1]

\* The lines of the log about key k.
LinesOf(lines, k) == {j \in 1..Len(lines) : lines[j].key = k}

\* C2: a fault met while a key is handled, in its probes or in its value
\* grouping, never aborts get_md_dict: no exception leaves it, and when it
\* has returned every key that met a fault has a status entry.
C2_FaultNeverAborts ==
    /\ pc # "raised"
    /\ pc = "returned" =>
        \A i \in 1..Len(Keys) :
            (ProbeFaults(xml_md[Keys[i]]) \/ GroupingFaults(xml_md[Keys[i]]))
                => Keys[i] \in DOMAIN mdd

\* The case of C2: the grouping of a key raised, the exception has left
\* get_md_dict, and a later key was never handled.
C2_GroupingFaultAborted ==
    /\ pc = "raised"
    /\ exc = "JavaException"
    /\ GroupingFaults(xml_md[Keys[ki]])
    /\ Keys[ki] \notin DOMAIN mdd
    /\ ki < Len(Keys)

\* C3: called with a file path, get_md_dict has closed the log handle it
\* opened on every path by which it is left, the path of an exception
\* included.
C3_LogHandleClosed ==
    pc \in {"returned", "raised"} => open_handles = 0

\* The case of C3: an exception has left get_md_dict called with a path, and
\* the handle is open.
C3_HandleLeftOpen ==
    pc = "raised" /\ Truthy(filepath) /\ open_handles > 0

\* C4, as stated: after two enumerations of the same path the log holds the
\* lines of the first followed by those of the second.
C4_LogKeepsFirstEnumeration ==
    (run = 2 /\ pc = "returned" /\ Truthy(filepath)) =>
        disk[LogPath(filepath)] = written[1] \o written[2]

\* C4, amended: the log is opened in write mode, which empties it; from the
\* moment an enumeration has opened it, the log holds exactly the lines that
\* enumeration has written, whatever earlier enumerations wrote.
C4_LogHoldsLastEnumeration ==
    (run > 0 /\ Truthy(filepath)) =>
        /\ LogPath(filepath) \in DOMAIN disk
        /\ disk[LogPath(filepath)] = written[run]

\* The case of C4: two enumerations of the same path have each written fault
\* lines and the second has returned.
C4_TwoEnumerationsLogged ==
    /\ run = 2
    /\ pc = "returned"
    /\ Truthy(filepath)
    /\ written[1] # <<>>
    /\ written[2] # <<>>
    /\ disk[LogPath(filepath)] = written[2]

\* The arity n is the one used for key k: the value recorded for k is the
\* grouping at n arguments, the fault logged for k is the one at n arguments.
ArityUsed(k, n) ==
    /\ (k \in DOMAIN mdd /\ mdd[k] = "Found") =>
        md[Stripped(k)] = get_allvalues_grouped(xml_md[k].tab, n).val
    /\ (k \in DOMAIN mdd /\ mdd[k] = "Jmiss" /\ Truthy(filepath)) =>
        \E j \in LinesOf(disk[LogPath(filepath)], k) :
            disk[LogPath(filepath)][j].npar = n

\* C5: every key handled was probed with 0, 1, 2, ... zero arguments in
\* increasing order up to the smallest arity in 0..4 whose probe does not
\* raise a wrong-signature error, and that arity is the one used; a key
\* whose five probes all raise it was probed with 0..4 arguments and is in
\* neither md nor mdd.
C5_ProbesInOrderSmallestArity ==
    \A k \in DOMAIN probes :
        IF HasFit(xml_md[k])
        THEN /\ probes[k] = UpTo(SmallestFit(xml_md[k]))
             /\ ArityUsed(k, SmallestFit(xml_md[k]))
        ELSE /\ probes[k] = UpTo(NPAR_RANGE - 1)
             /\ k \notin DOMAIN mdd
             /\ Stripped(k) \notin DOMAIN md

\* The case of C5: get_md_dict has returned, one key was skipped after five
\* probes and another was found at its third probe, with two arguments.
C5_SkippedAndFoundAtArityTwo ==
    /\ pc = "returned"
    /\ \E k \in DOMAIN probes : Len(probes[k]) = NPAR_RANGE /\ k \notin DOMAIN mdd
    /\ \E k \in DOMAIN mdd : mdd[k] = "Found" /\ probes[k] = <<0, 1, 2>>

\* C6: in the pair returned every status is Found, None or Jmiss; the
\* stripped name of a key is in md if and only if the key has status Found;
\* a key whose accessor returns None at its discovered arity has status None
\* and no entry in md.
C6_StatusesAndFoundKeys ==
    pc = "returned" =>
        /\ \A k \in DOMAIN mdd : k \in KeySet /\ mdd[k] \in {"Found", "None", "Jmiss"}
        /\ DOMAIN md \subseteq {Stripped(k) : k \in KeySet}
        /\ \A k \in KeySet :
            (Stripped(k) \in DOMAIN md) <=> (k \in DOMAIN mdd /\ mdd[k] = "Found")
        /\ \A k \in KeySet :
            ReturnsNone(xml_md[k]) =>
                (k \in DOMAIN mdd /\ mdd[k] = "None" /\ Stripped(k) \notin DOMAIN md)

\* The case of C6: the pair returned holds a key found and a key whose
\* accessor returned None.
C6_FoundAndNoneReturned ==
    /\ pc = "returned"
    /\ \E k \in DOMAIN mdd : mdd[k] = "Found" /\ Stripped(k) \in DOMAIN md
    /\ \E k \in DOMAIN mdd :
        mdd[k] = "None" /\ ReturnsNone(xml_md[k]) /\ Stripped(k) \notin DOMAIN md

\* The log, when a path was given, holds exactly one line about key k: the
\* key, the type and the value of the fault, and the arity of the fault.
LoggedOnce(k, acc) ==
    Truthy(filepath) =>
        /\ Cardinality(LinesOf(disk[LogPath(filepath)], k)) = 1
        /\ \A j \in LinesOf(disk[LogPath(filepath)], k) :
            disk[LogPath(filepath)][j] =
                [key |-> k, type |-> FirstAnswer(acc).exc,
                 value |-> FirstAnswer(acc).exc, sep |-> "--",
                 npar |-> SmallestFit(acc)]

\* C7: a key one of whose probes raised an error that is not a
\* wrong-signature error has status Jmiss, exactly one log line (key, fault
\* type and value, arity) when a path was given, and no md entry; the loop
\* has gone on past it, and no such key makes an exception leave get_md_dict.
C7_JmissLoggedAndPassed ==
    /\ \A i \in 1..(ki - 1) :
        /\ Keys[i] \in DOMAIN probes
        /\ ProbeFaults(xml_md[Keys[i]]) =>
            /\ Keys[i] \in DOMAIN mdd
            /\ mdd[Keys[i]] = "Jmiss"
            /\ Stripped(Keys[i]) \notin DOMAIN md
            /\ LoggedOnce(Keys[i], xml_md[Keys[i]])
    /\ pc = "raised" => ~ProbeFaults(xml_md[Keys[ki]])
    /\ ~Truthy(filepath) => disk = EmptyDict

\* The case of C7: with a path given, the probe of the first key raised a
\* fault at arity 1, which was logged, and the next key was then found.
C7_FaultLoggedThenNextKeyFound ==
    /\ pc = "returned"
    /\ Truthy(filepath)
    /\ Keys[1] \in DOMAIN mdd
    /\ mdd[Keys[1]] = "Jmiss"
    /\ \E j \in LinesOf(disk[LogPath(filepath)], Keys[1]) :
        disk[LogPath(filepath)][j].npar = 1
    /\ Keys[2] \in DOMAIN mdd
    /\ mdd[Keys[2]] = "Found"

\* ------------------------------------------------------------- next_tuple

\* The positions of the nonzero elements of L, and the rightmost of them.
NonZeroAt(L) == {i \in 1..Len(L) : L[i] # 0}
RightmostNonZero(L) == CHOOSE i \in NonZeroAt(L) : \A j \in NonZeroAt(L) : j <= i

\* C8: for a non-empty L, next_tuple(L, True) is L with only its last element
\* incremented; next_tuple(L, False) with the rightmost nonzero element not
\* the first is L with that element set to 0 and the element before it
\* incremented; with the rightmost nonzero element the first it raises
\* StopExceptionError; a returned list has the length of L.
C8_NextTupleNonEmpty ==
    (nt_pc = "done" /\ Len(nt_llist) > 0) =>
        /\ nt_s =>
            nt_ret = Ok([nt_llist EXCEPT ![Len(nt_llist)] = @ + 1])
        /\ (~nt_s /\ NonZeroAt(nt_llist) # {} /\ RightmostNonZero(nt_llist) > 1) =>
            nt_ret = Ok([nt_llist EXCEPT ![RightmostNonZero(nt_llist)] = 0,
                                         ![RightmostNonZero(nt_llist) - 1] = @ + 1])
        /\ (~nt_s /\ NonZeroAt(nt_llist) # {} /\ RightmostNonZero(nt_llist) = 1) =>
            nt_ret = Raise("StopExceptionError")
        /\ nt_ret.exc = "none" => Len(nt_ret.val) = Len(nt_llist)

\* The case of C8: next_tuple([0, 1, 2], False) has returned [0, 2, 0].
C8_CarryOfZeroOneTwo ==
    /\ nt_pc = "done"
    /\ ~nt_s
    /\ nt_llist = <<0, 1, 2>>
    /\ nt_ret = Ok(<<0, 2, 0>>)

\* C9: for a non-empty L whose elements are all zero, next_tuple(L, False)
\* raises StopExceptionError.
C9_AllZeroStops ==
    (nt_pc = "done" /\ ~nt_s /\ Len(nt_llist) > 0 /\ NonZeroAt(nt_llist) = {}) =>
        nt_ret.exc = "StopExceptionError"

\* The case of C9: next_tuple([0, 0, 0], False) has returned [0, 0, 0].
C9_AllZeroReturned ==
    /\ nt_pc = "done"
    /\ ~nt_s
    /\ nt_llist = <<0, 0, 0>>
    /\ nt_ret = Ok(<<0, 0, 0>>)

\* -------------------------------------------------- get_allvalues_grouped

\* C10: next_tuple of the empty list raises StopExceptionError for either
\* flag, so get_allvalues_grouped with npar = 0 makes exactly one accessor
\* call and, when that call gives a value, returns exactly one pair, with the
\* empty index.
C10_ArityZeroOneCallOnePair ==
    g_npar = 0 =>
        /\ \A s \in BOOLEAN : next_tuple(Zeros(g_npar), s) = Raise("StopExceptionError")
        /\ g_pc = "loop" =>
            (g_w.calls = 1 /\ g_w.tuple_list = <<>> /\ Len(g_w.res) <= 1)
        /\ g_pc = "done" =>
            /\ g_ret.calls = 1
            /\ g_ret.exc = "none" <=> g_acc[<<>>].exc = "none"
            /\ g_ret.exc = "none" =>
                g_ret.val = << << <<>>, convert_value(g_acc[<<>>]).val >> >>

\* The case of C10: get_allvalues_grouped with npar = 0 has returned one pair
\* with the empty index after one call.
C10_ArityZeroReturned ==
    /\ g_pc = "done"
    /\ g_npar = 0
    /\ g_ret.exc = "none"
    /\ g_ret.calls = 1
    /\ Len(g_ret.val) = 1
    /\ g_ret.val[1][1] = <<>>

\* The positions in res of the pairs whose index is t.
PairsAt(res, t) == {i \in 1..Len(res) : res[i][1] = t}

\* C11: the enumeration collected before the collapse holds exactly one pair
\* for every index tuple at which the accessor returns a value, for ragged
\* and for sparse sets of valid index tuples alike.
C11_EnumerationCollectsAllPairs ==
    (g_pc = "done" /\ g_ret.exc = "none") =>
        \A t \in Box(g_npar) :
            CallAccessor(g_acc, t).exc = "none" =>
                Cardinality(PairsAt(g_w.res, t)) = 1

\* The case of C11: the accessor of two arguments answers at (0, 0) and at
\* (1, 1) but not at (0, 1) and (1, 0); the enumeration has ended without a
\* pair for (1, 1).
C11_SparseIndexMissed ==
    /\ g_pc = "done"
    /\ g_npar = 2
    /\ g_ret.exc = "none"
    /\ CallAccessor(g_acc, <<0, 1>>).exc # "none"
    /\ CallAccessor(g_acc, <<1, 0>>).exc # "none"
    /\ CallAccessor(g_acc, <<1, 1>>).exc = "none"
    /\ PairsAt(g_w.res, <<1, 1>>) = {}

\* Every value of res is equal to every other.
ValuesIdentical(res) == \A i, j \in 1..Len(res) : PyEq(res[i][2], res[j][2])

\* The first index components of res, the greatest of them, and the pairs of
\* res with first index component k.
Outer(res) == {res[i][1][1] : i \in 1..Len(res)}
MaxOuter(res) == CHOOSE k \in Outer(res) : \A j \in Outer(res) : j <= k
GroupOf(res, k) == SelectSeq(res, LAMBDA e : e[1][1] = k)

\* The value list of every group equals that of the group of the greatest
\* first index component.
AllGroupsEqualMax(res) ==
    \A k \in Outer(res) :
        ValuesOf(GroupOf(res, k)) = ValuesOf(GroupOf(res, MaxOuter(res)))

\* The last n pairs of res.
Last(res, n) == [i \in 1..n |-> res[Len(res) - n + i]]

\* C12: if every value of the enumeration is identical, the result is
\* exactly one pair, whose index is the last enumerated index tuple and
\* whose value equals every original value.
C12_AllIdenticalOnePair ==
    (g_pc = "done" /\ g_ret.exc = "none" /\ ValuesIdentical(g_w.res)) =>
        /\ Len(g_ret.val) = 1
        /\ g_ret.val[1][1] = g_w.res[Len(g_w.res)][1]
        /\ \A i \in 1..Len(g_w.res) : PyEq(g_ret.val[1][2], g_w.res[i][2])

\* The case of C12: three pairs of two-component indexes with one value have
\* been collapsed to one pair.
C12_ThreeIdenticalCollapsed ==
    /\ g_pc = "done"
    /\ g_npar = 2
    /\ g_ret.exc = "none"
    /\ Len(g_w.res) = 3
    /\ ValuesIdentical(g_w.res)
    /\ g_ret.val = << g_w.res[3] >>

\* Step 2 as stated: the group of k, replaced by ((k, count - 1), value) when
\* all its values are identical and kept otherwise.
Step2Group(grp, k) ==
    IF ValuesIdentical(grp) THEN << << <<k, Len(grp) - 1>>, grp[1][2] >> >> ELSE grp

\* The groups of the first index components k..max in turn.
RECURSIVE Step2From(_, _, _)
Step2From(res, k, max) ==
    IF k > max THEN <<>>
    ELSE (IF k \in Outer(res) THEN Step2Group(GroupOf(res, k), k) ELSE <<>>)
             \o Step2From(res, k + 1, max)

\* C13: when the values are not all identical and the indexes have at least
\* two components, every group of a first index component whose values are
\* all identical is replaced by the pair ((outer_index, count - 1), value),
\* and the groups whose values are not all identical are not replaced (step 3
\* not applying).
C13_UniformGroupsReplacedOthersKept ==
    (/\ g_pc = "done"
     /\ g_ret.exc = "none"
     /\ g_npar >= 2
     /\ ~ValuesIdentical(g_w.res)
     /\ ~AllGroupsEqualMax(g_w.res)) =>
        g_ret.val = Step2From(g_w.res, 0, MaxOuter(g_w.res))

\* The case of C13: one group has identical values and another has not; the
\* result holds no pair of the latter.
C13_NonUniformGroupDropped ==
    /\ g_pc = "done"
    /\ g_npar = 2
    /\ g_ret.exc = "none"
    /\ ~ValuesIdentical(GroupOf(g_w.res, 0))
    /\ Len(GroupOf(g_w.res, 1)) = 2
    /\ ValuesIdentical(GroupOf(g_w.res, 1))
    /\ g_ret.val = << << <<1, 1>>, g_w.res[4][2] >> >>

\* C14: when the values are not all identical, the indexes have at least two
\* components and the value list of every group equals that of the group of
\* the greatest first index component, the result is the last len(group)
\* pairs of the enumeration, the pairs of that group.
C14_RepeatedGroupsCollapsed ==
    (/\ g_pc = "done"
     /\ g_ret.exc = "none"
     /\ g_npar >= 2
     /\ ~ValuesIdentical(g_w.res)
     /\ AllGroupsEqualMax(g_w.res)) =>
        /\ g_ret.val = Last(g_w.res, Len(GroupOf(g_w.res, MaxOuter(g_w.res))))
        /\ g_ret.val = GroupOf(g_w.res, MaxOuter(g_w.res))

\* The case of C14: two groups of two pairs with the same two different
\* values; the result is the second group.
C14_TwoEqualGroups ==
    /\ g_pc = "done"
    /\ g_npar = 2
    /\ g_ret.exc = "none"
    /\ Len(g_w.res) = 4
    /\ ~ValuesIdentical(g_w.res)
    /\ AllGroupsEqualMax(g_w.res)
    /\ g_ret.val = << g_w.res[3], g_w.res[4] >>

\* No collapse applies: the values are not all identical, and the indexes
\* have one component, or no group has identical values and some group
\* differs from the group of the greatest first index component.
NoCollapseApplies(res, npar) ==
    /\ ~ValuesIdentical(res)
    /\ \/ npar = 1
       \/ /\ npar >= 2
          /\ \A k \in Outer(res) : ~ValuesIdentical(GroupOf(res, k))
          /\ ~AllGroupsEqualMax(res)

\* C15: when no collapse applies, get_allvalues_grouped returns the full
\* enumeration, the same pairs in the same order.
C15_FullEnumerationReturned ==
    (g_pc = "done" /\ g_ret.exc = "none" /\ NoCollapseApplies(g_w.res, g_npar)) =>
        g_ret.val = g_w.res

\* The case of C15: two groups of two different values each, the second
\* group listing them in the other order; all four pairs are returned.
C15_DifferingGroupsReturned ==
    /\ g_pc = "done"
    /\ g_npar = 2
    /\ g_ret.exc = "none"
    /\ Len(g_w.res) = 4
    /\ NoCollapseApplies(g_w.res, g_npar)
    /\ g_ret.val = g_w.res

\* ---------------------------------------------------------------- stitch

\* A series that does not resolve to exactly one stage position.
Unresolved(si) == si.fault \/ Cardinality(si.pos) # 1

\* The (x, y) position of the i-th series of a file whose series resolve.
SeriesXY(file, i) == xy_of(CHOOSE p \in file.series[i].pos : TRUE)

\* The series of the file, from 0, at the position (x, y).
SeriesAt(file, x, y) ==
    {i - 1 : i \in {j \in 1..Len(file.series) : SeriesXY(file, j) = <<x, y>>}}

AllResolved(file) == \A i \in 1..Len(file.series) : ~Unresolved(file.series[i])

\* The distinct X and Y coordinates of the series of a file.
DistinctX(file) == {SeriesXY(file, i)[1] : i \in 1..Len(file.series)}
DistinctY(file) == {SeriesXY(file, i)[2] : i \in 1..Len(file.series)}

\* C16: when some series of the dataset does not resolve to exactly one
\* stage position, stitch and stitch3 end with ValueError, without a mosaic
\* and without having read a plane. The code raises other exceptions for
\* such datasets, so TLC refutes this.
C16_UnresolvedRefusedWithValueError ==
    (st_pc = "done" /\ \E i \in 1..Len(st_file.series) : Unresolved(st_file.series[i]))
        => (st_ret.exc = "ValueError" /\ st_reads = <<>>)

\* C16: stitch3 called on two series, the second with two distinct plane
\* positions, has ended with AttributeError.
C16_TwoPositionsNotValueError ==
    /\ st_pc = "done"
    /\ st_fn = "stitch3"
    /\ Len(st_file.series) = 2
    /\ ~Unresolved(st_file.series[1])
    /\ ~st_file.series[2].fault
    /\ Cardinality(st_file.series[2].pos) = 2
    /\ st_ret.exc = "AttributeError"

\* The tilemap has one row per distinct Y and one column per distinct X of
\* the file, ascending, and each cell holds the only series at its
\* coordinates, or -1 when there is none.
TilemapOf(file, tilemap) ==
    /\ Len(tilemap) = Cardinality(DistinctY(file))
    /\ \A r \in 1..Len(tilemap) :
        /\ Len(tilemap[r]) = Cardinality(DistinctX(file))
        /\ \A c \in 1..Len(tilemap[r]) :
            \E x \in DistinctX(file), y \in DistinctY(file) :
                /\ Cardinality({v \in DistinctX(file) : v < x}) = c - 1
                /\ Cardinality({v \in DistinctY(file) : v < y}) = r - 1
                /\ IF SeriesAt(file, x, y) = {} THEN tilemap[r][c] = -1
                   ELSE SeriesAt(file, x, y) = {tilemap[r][c]}

\* Two series of the file have the same (x, y) position.
SharedXY(file) ==
    \E i, j \in 1..Len(file.series) : i # j /\ SeriesXY(file, i) = SeriesXY(file, j)

\* C17: for a dataset whose series all resolve, the tilemap built has the
\* rows, the columns and the cells of TilemapOf, and when two series share
\* their (x, y) position the call ends with IndexError. For series at the
\* same (x, y, z) the code does not raise IndexError, so TLC refutes this.
C17_TilemapBuiltOrIndexError ==
    (st_pc = "done" /\ AllResolved(st_file)) =>
        /\ st_tilemap # <<>> => TilemapOf(st_file, st_tilemap)
        /\ SharedXY(st_file) => st_ret.exc = "IndexError"

\* C17: stitch3 called on two series at the same position has returned a
\* mosaic.
C17_SharedPositionStitched ==
    /\ st_pc = "done"
    /\ st_fn = "stitch3"
    /\ Len(st_file.series) = 2
    /\ AllResolved(st_file)
    /\ st_file.series[1].pos = st_file.series[2].pos
    /\ st_ret.exc = "none"

\* The block of the plane for the cell (r, c) of the tilemap, rows and
\* columns from 1: the plane read for the series of the cell, or zeros.
BlockIs(plane, tilemap, planes, size, r, c) ==
    \A dy \in 0..(size[1] - 1), dx \in 0..(size[2] - 1) :
        plane[<<(r - 1) * size[1] + dy, (c - 1) * size[2] + dx>>] =
            IF tilemap[r][c] >= 0 THEN planes[tilemap[r][c] + 1][<<dy, dx>>] ELSE 0

\* C18: the plane returned has SizeY x rows by SizeX x columns pixels; the
\* block of every cell of the tilemap mapped to a series equals the plane
\* wrapper.read gives for that series, and the block of every other cell is
\* zero.
C18_MosaicBlocksArePlanes ==
    (st_pc = "done" /\ st_ret.exc = "none") =>
        /\ DOMAIN st_ret.val =
            (0..(st_file.size[1] * Len(st_tilemap) - 1))
                \X (0..(st_file.size[2] * Len(st_tilemap[1]) - 1))
        /\ \A r \in 1..Len(st_tilemap), c \in 1..Len(st_tilemap[1]) :
            BlockIs(st_ret.val, st_tilemap, st_planes, st_file.size, r, c)

\* C18: stitch has returned the mosaic of two series with different planes,
\* on a grid with a cell without series.
C18_TwoTilesAndVoidStitched ==
    /\ st_pc = "done"
    /\ st_fn = "stitch"
    /\ st_ret.exc = "none"
    /\ Len(st_file.series) = 2
    /\ st_planes[1] # st_planes[2]
    /\ \E r \in 1..Len(st_tilemap), c \in 1..Len(st_tilemap[1]) : st_tilemap[r][c] = -1
    /\ st_reads = <<0, 1>>

\* ------------------------------------------------------------ read, read3

\* C19: when the path given to read or read3 is not an existing file, the
\* call ends with FileNotFoundError and the message "File not found: "
\* followed by the path, having made no backend call (the JVM is neither
\* queried nor started and no reader is created) and opened no log file.
C19_NotFoundBeforeBackend ==
    (rd_pc = "done" /\ (rd_path \notin DOMAIN rd_fs \/ rd_fs[rd_path] = "dir")) =>
        /\ rd_ret.exc = "FileNotFoundError"
        /\ rd_ret.val = S_not_found \o rd_path
        /\ rd_calls = <<>>
        /\ rd_logs = {}

\* C19: read3 has refused a path that does not exist, next to an existing
\* image.
C19_MissingPathRefused ==
    /\ rd_pc = "done"
    /\ rd_fn = "read3"
    /\ rd_path \notin DOMAIN rd_fs
    /\ \E p \in DOMAIN rd_fs : rd_fs[p] = "image"
    /\ rd_ret.exc = "FileNotFoundError"

\* ---------------------------------------------------------- convert_value

\* The value has none of the shapes convert_value knows: it is no str, bool
\* or int and has neither getValue nor unit.
UnknownShape(v) ==
    /\ ~(v.shape = "plain" /\ v.tag \in {"str", "bool", "int"})
    /\ v.shape \notin {"getValue", "unit"}

\* The conversion of the value raises.
Unconvertible(v) == v.tag # "NoneType" /\ v.err_str # "none"

\* C20: convert_value called with a value of no known shape whose conversion
\* fails returns the value it was given, having issued a warning, and does
\* not raise. The code raises again every exception but ValueError, so TLC
\* refutes this.
C20_UnconvertibleWarnedAndKept ==
    (cv_pc = "done" /\ UnknownShape(cv_v) /\ Unconvertible(cv_v)) =>
        /\ cv_ret.exc = "none"
        /\ cv_ret.warned
        /\ cv_ret.val = PV(cv_v.tag, cv_v.text)

\* C20: convert_value called with an object whose str() raises a Java
\* exception has issued the warning and raised that exception.
C20_UnconvertibleRaised ==
    /\ cv_pc = "done"
    /\ cv_v = ObjectFaulty("JavaException")
    /\ cv_ret.warned
    /\ cv_ret.exc = "JavaException"

\* ----------------------------------------------- convert_java_numeric_field

\* C21: convert_java_numeric_field gives None for None; for a field whose
\* str() exists it does not raise and gives the int of the text when the
\* text is an integer literal, else the float when it is a float literal,
\* else the text itself.
C21_IntThenFloatThenString ==
    cn_pc = "done" =>
        /\ cn_field.tag = "NoneType" => (cn_ret.exc = "none" /\ cn_ret.val = PyNone)
        /\ (cn_field.tag # "NoneType" /\ cn_field.err_str = "none") =>
            /\ cn_ret.exc = "none"
            /\ IsIntLiteral(cn_field.text) => cn_ret.val = PV("int", IntText(cn_field.text))
            /\ (~IsIntLiteral(cn_field.text) /\ IsFloatLiteral(cn_field.text)) =>
                cn_ret.val = PV("float", FloatText(cn_field.text))
            /\ (~IsIntLiteral(cn_field.text) /\ ~IsFloatLiteral(cn_field.text)) =>
                cn_ret.val = PV("str", cn_field.text)

\* C21: one of the fields "976", "0.976" and "1.2.3" has been converted, to an
\* int, a float or a str respectively.
C21_ThreeKindsConverted ==
    /\ cn_pc = "done"
    /\ cn_ret.exc = "none"
    /\ \/ cn_field.text = <<"9", "7", "6">> /\ cn_ret.val.tag = "int"
       \/ cn_field.text = <<"0", ".", "9", "7", "6">> /\ cn_ret.val.tag = "float"
       \/ cn_field.text = <<"1", ".", "2", ".", "3">> /\ cn_ret.val.tag = "str"

\* ---------------------------------------------------- first_nonzero_reverse

\* C25: first_nonzero_reverse(L) is None exactly when L has no nonzero
\* element; otherwise it is the negative index i, -len(L) <= i <= -1, of the
\* rightmost nonzero element: L[i] is not 0 and every element right of it is.
C25_RightmostNonzeroOrNone ==
    fz_pc = "done" =>
        /\ fz_ret = None <=> NonZeroAt(nt_llist) = {}
        /\ fz_ret # None =>
            /\ Len(fz_ret) = 1
            /\ -Len(nt_llist) <= fz_ret[1] /\ fz_ret[1] <= -1
            /\ nt_llist[Len(nt_llist) + fz_ret[1] + 1] # 0
            /\ \A j \in (Len(nt_llist) + fz_ret[1] + 2)..Len(nt_llist) : nt_llist[j] = 0

\* C25: first_nonzero_reverse([0, 2, 0, 0]) has returned -3.
C25_MinusThreeReturned ==
    /\ fz_pc = "done"
    /\ nt_llist = <<0, 2, 0, 0>>
    /\ fz_ret = <<-3>>

\* ------------------------------------------ get_allvalues_grouped, values

\* The value v occurs in res.
Occurs(res, v) == \E i \in 1..Len(res) : PyEq(res[i][2], v)

\* C26: every value of the enumeration collected for a key is the value of
\* some pair of the returned list. The code drops the groups whose values
\* differ when another group has identical values, so TLC refutes this.
C26_NoValueLost ==
    (g_pc = "done" /\ g_ret.exc = "none") =>
        \A i \in 1..Len(g_w.res) : Occurs(g_ret.val, g_w.res[i][2])

\* C26: the enumeration of an accessor of two arguments held the values 1 and
\* 2, and the returned list holds the value 1 only.
C26_ValueTwoLost ==
    /\ g_pc = "done"
    /\ g_npar = 2
    /\ g_ret.exc = "none"
    /\ Occurs(g_w.res, PV("int", <<"2">>))
    /\ Occurs(g_w.res, PV("int", <<"1">>))
    /\ ~Occurs(g_ret.val, PV("int", <<"2">>))

\* ------------------------------------------- get_allvalues_grouped, the walk

\* a is before b in lexicographic order, for index lists of one length.
LexLess(a, b) ==
    \E i \in 1..Len(a) : a[i] < b[i] /\ \A j \in 1..(i - 1) : a[j] = b[j]

\* The loop is about to call next_tuple.
AtNextTuple == g_pc = "loop" /\ ~g_w.done

\* The loop has been left by StopExceptionError.
Stopped == g_pc \in {"loop", "done"} /\ g_w.done /\ g_w.exc = "none"

SameInAll(values) == \A i, j \in 1..Len(values) : values[i] = values[j]

\* C22: every consolidated field of the CoreMetadata of a file is the list of
\* one element when the values of the series are the same in every series,
\* and only then (for a file of several series), and else the list of the
\* values of the series in the order of the series; a series whose planes
\* are at more than one stage position has the stage position None.
C22_FieldsConsolidated ==
    "read3" \in mt_done =>
        /\ \A f \in CoreFields :
            /\ SameInAll(PerSeries(mt_file, f)) => mt_core[f] = << PerSeries(mt_file, f)[1] >>
            /\ ~SameInAll(PerSeries(mt_file, f)) =>
                /\ Len(mt_core[f]) = Len(mt_file.series)
                /\ mt_core[f] = PerSeries(mt_file, f)
        /\ \A i \in 1..Len(mt_file.series) :
            (~mt_file.series[i].fault /\ Cardinality(mt_file.series[i].pos) > 1) =>
                PerSeries(mt_file, "stage_position")[i] = NoPosition

\* C22: the CoreMetadata of a file of two series that differ in size_z has
\* the two values of size_z in the order of the series, and lists of one
\* element for size_x and stage_position.
C22_OneFieldPerSeries ==
    /\ "read3" \in mt_done
    /\ Len(mt_file.series) = 2
    /\ mt_file.series[1].size_z # mt_file.series[2].size_z
    /\ mt_core.size_z = <<mt_file.series[1].size_z, mt_file.series[2].size_z>>
    /\ Len(mt_core.size_x) = 1
    /\ Len(mt_core.stage_position) = 1

\* -------------------------------------------------------------- tidy_metadata

\* The dicts of the series of the file before tidy_metadata.
Filled(file) == fill_metadata(file).series

\* The value of the key k of the series i in the tidied dict.
Recovered(meta, i, k) == IF k \in DOMAIN meta.top THEN meta.top[k] ELSE meta.series[i][k]

\* C23: in the tidied dict of a file of several series a key is a first-level
\* key, and in no series dict, exactly when its value is the same in all
\* series, and is in every series dict otherwise; for a file of one series
\* every key is a first-level key and there is no "series" key. No key is in
\* both places, and the value of every key of every series is found in the
\* tidied dict.
C23_TidyKeepsEveryValueOnce ==
    "read" \in mt_done =>
        /\ Len(mt_file.series) = 1 =>
            /\ ~mt_md.has_series
            /\ SeriesKeys \subseteq DOMAIN mt_md.top
        /\ Len(mt_file.series) > 1 =>
            /\ mt_md.has_series
            /\ Len(mt_md.series) = Len(mt_file.series)
            /\ \A k \in SeriesKeys :
                IF \A i \in 1..Len(mt_file.series) : Filled(mt_file)[i][k] = Filled(mt_file)[1][k]
                THEN k \in DOMAIN mt_md.top
                         /\ \A i \in 1..Len(mt_md.series) : k \notin DOMAIN mt_md.series[i]
                ELSE k \notin DOMAIN mt_md.top
                         /\ \A i \in 1..Len(mt_md.series) : k \in DOMAIN mt_md.series[i]
        /\ \A i \in 1..Len(mt_md.series) : DOMAIN mt_md.series[i] \cap DOMAIN mt_md.top = {}
        /\ \A i \in 1..Len(mt_file.series), k \in SeriesKeys :
            Recovered(mt_md, i, k) = Filled(mt_file)[i][k]

\* C23: the tidied dict of a file of two series with different names has the
\* names in the series dicts and SizeX at the first level.
C23_NamePerSeriesSizeCommon ==
    /\ "read" \in mt_done
    /\ Len(mt_file.series) = 2
    /\ mt_file.series[1].name # mt_file.series[2].name
    /\ mt_md.has_series
    /\ "Name" \in DOMAIN mt_md.series[1]
    /\ mt_md.series[2]["Name"] = mt_file.series[2].name
    /\ "SizeX" \in DOMAIN mt_md.top

\* ------------------------------------------------------------------ C24

\* C24: constructing an ImageReaderWrapper picks the dtype from the bits per
\* pixel the reader reports: 8 gives the 8-bit dtype, 12 and 16 give the
\* 16-bit dtype; for any other bit depth the construction raises ValueError
\* and read is never called on a wrapper.
C24_DtypeFromBitDepth ==
    /\ wr_pc = "ready" =>
        \/ wr_file[1].bits = 8 /\ wr_dtype = "int8"
        \/ wr_file[1].bits \in {12, 16} /\ wr_dtype = "int16"
    /\ wr_pc = "failed" =>
        /\ wr_file[1].bits \notin {8, 12, 16}
        /\ wr_ret = Raise("ValueError")
        /\ wr_dtype = "none"
    /\ (wr_pc \in {"new", "ready", "failed"} /\ wr_file[1].bits \notin {8, 12, 16}) =>
        /\ wr_pc # "ready"
        /\ wr_count = 0
        /\ wr_call = <<>>

\* A reader of 32 bits per pixel: the construction has raised.
C24_ThirtyTwoBitsRefused ==
    /\ wr_pc = "failed"
    /\ wr_file[1].bits = 32
    /\ wr_ret = Raise("ValueError")

\* ------------------------------------------------------------------ C28

\* The plane idx of the series s of the file, indexed by (y, x).
PlaneOfSeries(file, s, idx) ==
    [yx \in (0..(file[s + 1].size_y - 1)) \X (0..(file[s + 1].size_x - 1)) |->
        PixelOf(file, s, idx, yx[1], yx[2])]

\* C28: after any sequence of earlier calls, read(series=s, z, c, t) returns
\* the (z, c, t) plane of the series s, shaped [SizeY, SizeX] of that series,
\* the current series of the reader is s afterwards, and the result is the
\* same for rescale true and false.
C28_ReadReturnsPlaneOfSeries ==
    wr_call # <<>> =>
        /\ wr_ret = Ok(PlaneOfSeries(wr_file, wr_call.series, getIndex(wr_call.z)))
        /\ wr_series = wr_call.series
        /\ wr_ret = wrapper_read(wr_file, wr_dtype, wr_call.series, wr_call.z, ~wr_call.rescale)

\* A wrapper made on a series of 8 bits has read a plane of a second series
\* of 16 bits: the reshape has raised ValueError.
C28_SixteenBitSeriesRaises ==
    /\ wr_call # <<>>
    /\ wr_file = <<PlainSeries, [PlainSeries EXCEPT !.bits = 16]>>
    /\ wr_dtype = "int8"
    /\ wr_call.series = 1
    /\ wr_series = 1
    /\ wr_ret = Raise("ValueError")
====
